---- MODULE Spec2Model ----
(***************************************************************************)
(* A model of the knowledge graph store of scripts/knowledge_graph.py      *)
(* (KnowledgeGraphManager) and of the reasoner of                          *)
(* scripts/knowledge_integration.py (KnowledgeReasoner).                   *)
(*                                                                         *)
(* Conventions.                                                            *)
(*  - A Python str is a sequence of one-character strings, so that the    *)
(*    f-string that derives an id (name, "_", type), lower(), split()     *)
(*    and re.search are computed character by character.                  *)
(*  - Where the letters of a word play no part (node ids, relation type  *)
(*    names), the word is written as one symbol: <<"calls">> is a        *)
(*    non-empty str, <<>> is the empty str.                               *)
(*  - hashlib.md5(s).hexdigest()[:16] is modelled by Md5, which wraps s   *)
(*    between two "#" marks: an injective stand-in for the digest (the    *)
(*    input alphabet holds no "#"). Collisions of the 64-bit digest       *)
(*    itself are not modelled.                                            *)
(*  - An optional argument (default None) is a record [some |-> FALSE]    *)
(*    or [some |-> TRUE, val |-> v].                                      *)
(*  - A confidence is an integer number of hundredths (0.6 is 60).        *)
(*  - dict preserves insertion order: the entity and relation maps are    *)
(*    sequences of records in insertion order, keyed by the id field.     *)
(*  - datetime.now() reads the variable clock, which may stand still or   *)
(*    advance by one between two reads.                                   *)
(*  - Every caller passes a properties dict of its own (no two records    *)
(*    share one dict object).                                             *)
(***************************************************************************)
EXTENDS Integers, Sequences, FiniteSets, TLC

VARIABLES
    entities,   \* self.entities: Dict[str, KnowledgeEntity], in insertion order
    relations,  \* self.relations: Dict[str, KnowledgeRelation], in insertion order
    queries,    \* self.queries: List[KnowledgeQuery]
    insights,   \* self.insights: List[KnowledgeInsight]
    disk,       \* the four json files of the data directory
    clock,      \* the value datetime.now() returns
    ret,        \* the last call: its name, its arguments, whether an upsert hit a
                \* stored record, and what it returned
    supplied,   \* per upsert key, what the calls made so far supplied and returned
    calls,      \* how many calls a bounded session has made
    config,     \* self.config, or NoManager before the constructor has returned
    outputs     \* the files written under outputs/knowledge

vars == <<entities, relations, queries, insights, disk, clock, ret, supplied, calls,
          config, outputs>>

-----------------------------------------------------------------------------
(* Bounds of the model *)

MaxCalls == 3          \* calls of a session of Spec, SpecEntity, SpecRelation
MaxPathRelations == 3  \* relations stored in SpecPath
MaxPathQueries == 1    \* path searches of a session of SpecPath
MaxInferRelations == 4 \* relations upserted by the caller in SpecInfer
MaxInferQueries == 4   \* Query records of a session of SpecInfer
MaxSimilarEntities == 3   \* entities stored in SpecSimilar
MaxSimilarRelations == 2  \* relations upserted by the caller in SpecSimilar
MaxSimilarCalls == 2      \* reasoner calls of a session of SpecSimilar
MaxOps == 3               \* calls of a session of SpecStore
MaxCleanCalls == 5        \* calls of a session of SpecCleanup

-----------------------------------------------------------------------------
(* Values *)

None == [some |-> FALSE]
Some(v) == [some |-> TRUE, val |-> v]

\* Python truthiness of an optional str: None and "" are both falsy.
Truthy(o) == o.some /\ o.val # <<>>

EmptyMap == [k \in {} |-> 0]

\* dict.update(other): the union of both maps, other's value winning on a shared key.
DictUpdate(old, other) ==
    [k \in DOMAIN old \cup DOMAIN other |-> IF k \in DOMAIN other THEN other[k] ELSE old[k]]

\* `properties or {}`: None and the empty dict both give a new empty dict.
OrEmpty(p) == IF p.some /\ DOMAIN p.val # {} THEN p.val ELSE EmptyMap

PyMax(a, b) == IF b > a THEN b ELSE a

\* hashlib.md5(s.encode()).hexdigest()[:16]
Md5(s) == <<"#">> \o s \o <<"#">>

Underscore == <<"_">>

\* hashlib.md5(f"{name}_{entity_type}".encode()).hexdigest()[:16]
EntityId(name, entity_type) == Md5(name \o Underscore \o entity_type)

\* hashlib.md5(f"{source_id}_{relation_type}_{target_id}".encode()).hexdigest()[:16]
RelationId(source_id, relation_type, target_id) ==
    Md5(source_id \o Underscore \o relation_type \o Underscore \o target_id)

\* The times a datetime.now() read can return when the previous read returned c.
Tick(c) == {c, c + 1}

\* `key in dict` and dict[key] on a map kept as a sequence of records.
Ids(recs) == {recs[i].id : i \in DOMAIN recs}
IndexOf(recs, id) == CHOOSE i \in DOMAIN recs : recs[i].id = id
Lookup(recs, id) == recs[IndexOf(recs, id)]

-----------------------------------------------------------------------------
(* Persistence: _save_data *)

\* dataclasses.asdict of a KnowledgeEntity: the json object, field by field.
EntityToDict(e) ==
    << <<"id", e.id>>, <<"name", e.name>>, <<"type", e.type>>,
       <<"properties", e.properties>>, <<"confidence", e.confidence>>,
       <<"created_at", e.created_at>>, <<"updated_at", e.updated_at>>,
       <<"source", e.source>> >>

RelationToDict(r) ==
    << <<"id", r.id>>, <<"source_id", r.source_id>>, <<"target_id", r.target_id>>,
       <<"relation_type", r.relation_type>>, <<"properties", r.properties>>,
       <<"confidence", r.confidence>>, <<"created_at", r.created_at>>,
       <<"updated_at", r.updated_at>>, <<"source", r.source>> >>

QueryToDict(q) ==
    << <<"query_id", q.query_id>>, <<"query_text", q.query_text>>,
       <<"query_type", q.query_type>>, <<"parameters", q.parameters>>,
       <<"timestamp", q.timestamp>> >>

InsightToDict(i) ==
    << <<"insight_id", i.insight_id>>, <<"title", i.title>>,
       <<"description", i.description>>, <<"insight_type", i.insight_type>>,
       <<"confidence", i.confidence>>, <<"evidence", i.evidence>>,
       <<"created_at", i.created_at>> >>

File(doc) == [exists |-> TRUE, doc |-> doc]
NoFile == [exists |-> FALSE, doc |-> <<>>]

EntitiesDoc(ents) == [i \in DOMAIN ents |-> EntityToDict(ents[i])]
RelationsDoc(rels) == [i \in DOMAIN rels |-> RelationToDict(rels[i])]
QueriesDoc(qs) == [i \in DOMAIN qs |-> QueryToDict(qs[i])]
InsightsDoc(ins) == [i \in DOMAIN ins |-> InsightToDict(ins[i])]

\* SaveData with the query history left out.
SaveDataWithoutQueries(ents, rels, qs, ins) ==
    [entities  |-> File(EntitiesDoc(ents)),
     relations |-> File(RelationsDoc(rels)),
     queries   |-> File(<<>>),
     insights  |-> File(InsightsDoc(ins))]

\* _save_data: the four files are rewritten from the four collections.
SaveData(ents, rels, qs, ins) ==
    [entities  |-> File(EntitiesDoc(ents)),
     relations |-> File(RelationsDoc(rels)),
     queries   |-> File(QueriesDoc(qs)),
     insights  |-> File(InsightsDoc(ins))]

\* SaveDataStopped with the four files written in the opposite order.
SaveDataStoppedInsightsFirst(files, ents, rels, qs, ins, k) ==
    [entities  |-> IF k >= 4 THEN File(EntitiesDoc(ents)) ELSE files.entities,
     relations |-> IF k >= 3 THEN File(RelationsDoc(rels)) ELSE files.relations,
     queries   |-> IF k >= 2 THEN File(QueriesDoc(qs)) ELSE files.queries,
     insights  |-> IF k >= 1 THEN File(InsightsDoc(ins)) ELSE files.insights]

\* _save_data in a process that stops after k of its four `with open` blocks:
\* the files written so far, the others as they were (files).
SaveDataStopped(files, ents, rels, qs, ins, k) ==
    [entities  |-> IF k >= 1 THEN File(EntitiesDoc(ents)) ELSE files.entities,
     relations |-> IF k >= 2 THEN File(RelationsDoc(rels)) ELSE files.relations,
     queries   |-> IF k >= 3 THEN File(QueriesDoc(qs)) ELSE files.queries,
     insights  |-> IF k >= 4 THEN File(InsightsDoc(ins)) ELSE files.insights]

-----------------------------------------------------------------------------
(* Upserts: add_entity, add_relation *)

\* MergeEntity with the incoming confidence stored instead of the maximum.
MergeEntityLastConfidence(entity, properties, confidence, now) ==
    [entity EXCEPT !.properties = DictUpdate(entity.properties, OrEmpty(properties)),
                   !.confidence = confidence,
                   !.updated_at = now]

\* The branch `if entity_id in self.entities` of add_entity.
MergeEntity(entity, properties, confidence, now) ==
    [entity EXCEPT !.properties = DictUpdate(entity.properties, OrEmpty(properties)),
                   !.confidence = PyMax(entity.confidence, confidence),
                   !.updated_at = now]

\* The else branch of add_entity.
NewEntity(entity_id, name, entity_type, properties, confidence, source, now1, now2) ==
    [id |-> entity_id, name |-> name, type |-> entity_type,
     properties |-> OrEmpty(properties), confidence |-> confidence,
     created_at |-> now1, updated_at |-> now2, source |-> source]

\* AddEntityStore with a hit overwriting the stored record by a new one.
AddEntityStoreOverwrite(ents, name, entity_type, properties, confidence, source, now1, now2) ==
    LET entity_id == EntityId(name, entity_type)
        entity == NewEntity(entity_id, name, entity_type, properties, confidence,
                            source, now1, now2) IN
    IF entity_id \in Ids(ents)
    THEN [ents EXCEPT ![IndexOf(ents, entity_id)] = entity]
    ELSE Append(ents, entity)

\* self.entities after add_entity; now1 and now2 are its datetime.now() reads.
AddEntityStore(ents, name, entity_type, properties, confidence, source, now1, now2) ==
    LET entity_id == EntityId(name, entity_type) IN
    IF entity_id \in Ids(ents)
    THEN [ents EXCEPT ![IndexOf(ents, entity_id)] =
              MergeEntity(ents[IndexOf(ents, entity_id)], properties, confidence, now1)]
    ELSE Append(ents, NewEntity(entity_id, name, entity_type, properties, confidence,
                                source, now1, now2))

\* MergeRelation with the property map replaced instead of updated.
MergeRelationReplaceProperties(relation, properties, confidence, now) ==
    [relation EXCEPT !.properties = OrEmpty(properties),
                     !.confidence = PyMax(relation.confidence, confidence),
                     !.updated_at = now]

\* MergeRelation with the incoming confidence stored instead of the maximum.
MergeRelationLastConfidence(relation, properties, confidence, now) ==
    [relation EXCEPT !.properties = DictUpdate(relation.properties, OrEmpty(properties)),
                     !.confidence = confidence,
                     !.updated_at = now]

\* The branch `if relation_id in self.relations` of add_relation.
MergeRelation(relation, properties, confidence, now) ==
    [relation EXCEPT !.properties = DictUpdate(relation.properties, OrEmpty(properties)),
                     !.confidence = PyMax(relation.confidence, confidence),
                     !.updated_at = now]

\* The else branch of add_relation.
NewRelation(relation_id, source_id, target_id, relation_type, properties, confidence, source, now1, now2) ==
    [id |-> relation_id, source_id |-> source_id, target_id |-> target_id,
     relation_type |-> relation_type, properties |-> OrEmpty(properties),
     confidence |-> confidence, created_at |-> now1, updated_at |-> now2,
     source |-> source]

\* self.relations after add_relation; now1 and now2 are its datetime.now() reads.
AddRelationStore(rels, source_id, target_id, relation_type, properties, confidence, source, now1, now2) ==
    LET relation_id == RelationId(source_id, relation_type, target_id) IN
    IF relation_id \in Ids(rels)
    THEN [rels EXCEPT ![IndexOf(rels, relation_id)] =
              MergeRelation(rels[IndexOf(rels, relation_id)], properties, confidence, now1)]
    ELSE Append(rels, NewRelation(relation_id, source_id, target_id, relation_type,
                                  properties, confidence, source, now1, now2))

\* The record of what the upsert calls made so far supplied for each key: the
\* ids they returned, the largest confidence, and the union of the property
\* maps in which a later call's value replaces an earlier one.
SuppliedMap(p) == IF p.some THEN p.val ELSE [k \in {} |-> 0]
LaterWins(a, b) == [k \in DOMAIN a \cup DOMAIN b |-> IF k \in DOMAIN b THEN b[k] ELSE a[k]]
Note(sup, kind, key, id, properties, confidence) ==
    IF \E s \in sup : s.kind = kind /\ s.key = key
    THEN {IF s.kind = kind /\ s.key = key
          THEN [s EXCEPT !.ids = @ \cup {id},
                         !.properties = LaterWins(@, SuppliedMap(properties)),
                         !.confidence = IF confidence > @ THEN confidence ELSE @]
          ELSE s : s \in sup}
    ELSE sup \cup {[kind |-> kind, key |-> key, ids |-> {id},
                    properties |-> SuppliedMap(properties), confidence |-> confidence]}

\* add_entity(name, entity_type, properties, confidence, source)
AddEntity(name, entity_type, properties, confidence, source, now1, now2) ==
    LET entity_id == EntityId(name, entity_type)
        hit == entity_id \in Ids(entities) IN
    /\ entities' = AddEntityStore(entities, name, entity_type, properties, confidence,
                                  source, now1, now2)
    /\ disk' = SaveData(entities', relations, queries, insights)
    /\ clock' = IF hit THEN now1 ELSE now2
    /\ ret' = [op |-> "add_entity", args |-> <<name, entity_type>>, hit |-> hit,
               result |-> entity_id]
    /\ supplied' = Note(supplied, "entity", <<name, entity_type>>, entity_id,
                        properties, confidence)
    /\ UNCHANGED <<relations, queries, insights, config, outputs>>

\* add_relation(source_id, target_id, relation_type, properties, confidence, source)
AddRelation(source_id, target_id, relation_type, properties, confidence, source, now1, now2) ==
    LET relation_id == RelationId(source_id, relation_type, target_id)
        hit == relation_id \in Ids(relations) IN
    /\ relations' = AddRelationStore(relations, source_id, target_id, relation_type,
                                     properties, confidence, source, now1, now2)
    /\ disk' = SaveData(entities, relations', queries, insights)
    /\ clock' = IF hit THEN now1 ELSE now2
    /\ ret' = [op |-> "add_relation", args |-> <<source_id, target_id, relation_type>>,
               hit |-> hit, result |-> relation_id]
    /\ supplied' = Note(supplied, "relation", <<source_id, relation_type, target_id>>,
                        relation_id, properties, confidence)
    /\ UNCHANGED <<entities, queries, insights, config, outputs>>

-----------------------------------------------------------------------------
(* Queries: query_entities, query_relations *)

\* str.lower() of one character of the alphabet.
LowerChar(c) == CASE c = "A" -> "a" [] c = "B" -> "b" [] OTHER -> c

\* re.search(pattern, s, re.IGNORECASE) for a pattern of literal characters:
\* the pattern occurs somewhere in s, letter case ignored.
ReSearch(pattern, s) ==
    \E i \in 0..(Len(s) - Len(pattern)) :
        \A j \in 1..Len(pattern) : LowerChar(s[i + j]) = LowerChar(pattern[j])

\* sorted(results, key=lambda x: x.confidence, reverse=True): a stable sort, so
\* records of equal confidence keep the order they have in results.
RECURSIVE SortedByConfidence(_)
SortedByConfidence(results) ==
    IF results = <<>> THEN <<>>
    ELSE LET x == Head(results)
             rest == SortedByConfidence(Tail(results)) IN
         SelectSeq(rest, LAMBDA y : y.confidence > x.confidence)
             \o <<x>> \o SelectSeq(rest, LAMBDA y : y.confidence <= x.confidence)

\* The loop of query_entities: the entities no `continue` skips.
EntityPasses(entity, entity_type, name_pattern, min_confidence) ==
    /\ ~(Truthy(entity_type) /\ entity.type # entity_type.val)
    /\ ~(Truthy(name_pattern) /\ ~ReSearch(name_pattern.val, entity.name))
    /\ ~(entity.confidence < min_confidence)

\* What query_entities returns.
QueryEntitiesResult(ents, entity_type, name_pattern, min_confidence) ==
    SortedByConfidence(SelectSeq(ents,
        LAMBDA e : EntityPasses(e, entity_type, name_pattern, min_confidence)))

\* The loop of query_relations: the relations no `continue` skips.
RelationPasses(relation, source_id, target_id, relation_type, min_confidence) ==
    /\ ~(Truthy(source_id) /\ relation.source_id # source_id.val)
    /\ ~(Truthy(target_id) /\ relation.target_id # target_id.val)
    /\ ~(Truthy(relation_type) /\ relation.relation_type # relation_type.val)
    /\ ~(relation.confidence < min_confidence)

\* What query_relations returns.
QueryRelationsResult(rels, source_id, target_id, relation_type, min_confidence) ==
    SortedByConfidence(SelectSeq(rels,
        LAMBDA r : RelationPasses(r, source_id, target_id, relation_type, min_confidence)))

\* str(x) of an optional str inside an f-string.
Str(o) == IF o.some THEN o.val ELSE <<"N", "o", "n", "e">>

\* The KnowledgeQuery query_entities records.
EntityQuery(entity_type, name_pattern, min_confidence, now1, now2) ==
    [query_id |-> Md5(<<"entities", "_", now1>>),
     query_text |-> <<"type=", Str(entity_type), ", pattern=", Str(name_pattern),
                      ", min_confidence=", min_confidence>>,
     query_type |-> "entity",
     parameters |-> [entity_type |-> entity_type, name_pattern |-> name_pattern,
                     min_confidence |-> min_confidence],
     timestamp |-> now2]

\* The KnowledgeQuery query_relations records.
RelationQuery(source_id, target_id, relation_type, min_confidence, now1, now2) ==
    [query_id |-> Md5(<<"relations", "_", now1>>),
     query_text |-> <<"source=", Str(source_id), ", target=", Str(target_id),
                      ", type=", Str(relation_type),
                      ", min_confidence=", min_confidence>>,
     query_type |-> "relation",
     parameters |-> [source_id |-> source_id, target_id |-> target_id,
                     relation_type |-> relation_type, min_confidence |-> min_confidence],
     timestamp |-> now2]

\* query_entities(entity_type, name_pattern, min_confidence)
QueryEntities(entity_type, name_pattern, min_confidence, now1, now2) ==
    /\ queries' = Append(queries,
                         EntityQuery(entity_type, name_pattern, min_confidence, now1, now2))
    /\ ret' = [op |-> "query_entities",
               args |-> <<entity_type, name_pattern, min_confidence>>, hit |-> FALSE,
               result |-> QueryEntitiesResult(entities, entity_type, name_pattern,
                                              min_confidence)]
    /\ clock' = now2
    /\ UNCHANGED <<entities, relations, insights, disk, supplied, config, outputs>>

\* query_relations(source_id, target_id, relation_type, min_confidence)
QueryRelations(source_id, target_id, relation_type, min_confidence, now1, now2) ==
    /\ queries' = Append(queries, RelationQuery(source_id, target_id, relation_type,
                                                min_confidence, now1, now2))
    /\ ret' = [op |-> "query_relations",
               args |-> <<source_id, target_id, relation_type, min_confidence>>,
               hit |-> FALSE,
               result |-> QueryRelationsResult(relations, source_id, target_id,
                                               relation_type, min_confidence)]
    /\ clock' = now2
    /\ UNCHANGED <<entities, relations, insights, disk, supplied, config, outputs>>

-----------------------------------------------------------------------------
(* Path search: find_path *)

\* The nested dfs of find_path. What it appends to paths, in order, when called
\* with (current_id, path, depth) while the set visited is as given; on return
\* visited is as it was on entry.
RECURSIVE Dfs(_, _, _, _, _, _, _), DfsLoop(_, _, _, _, _, _, _, _)

\* Dfs with the visited test made before the target test.
DfsVisitedFirst(rels, target_id, max_depth, current_id, path, depth, visited) ==
    IF depth > max_depth THEN <<>>
    ELSE IF current_id \in visited THEN <<>>
    ELSE IF current_id = target_id /\ Len(path) > 1 THEN <<path>>
    ELSE DfsLoop(rels, target_id, max_depth, current_id, path, depth,
                 visited \cup {current_id}, 1)

\* Dfs with the depth test passing one hop more.
DfsOneDeeper(rels, target_id, max_depth, current_id, path, depth, visited) ==
    IF depth > max_depth + 1 THEN <<>>
    ELSE IF current_id = target_id /\ Len(path) > 1 THEN <<path>>
    ELSE IF current_id \in visited THEN <<>>
    ELSE DfsLoop(rels, target_id, max_depth, current_id, path, depth,
                 visited \cup {current_id}, 1)

Dfs(rels, target_id, max_depth, current_id, path, depth, visited) ==
    IF depth > max_depth THEN <<>>
    ELSE IF current_id = target_id /\ Len(path) > 1 THEN <<path>>
    ELSE IF current_id \in visited THEN <<>>
    ELSE DfsLoop(rels, target_id, max_depth, current_id, path, depth,
                 visited \cup {current_id}, 1)

\* The loop `for relation in self.relations.values()` of dfs, from the i-th relation on.
DfsLoop(rels, target_id, max_depth, current_id, path, depth, visited, i) ==
    IF i > Len(rels) THEN <<>>
    ELSE (IF rels[i].source_id = current_id
          THEN Dfs(rels, target_id, max_depth, rels[i].target_id,
                   path \o <<rels[i].relation_type, rels[i].target_id>>,
                   depth + 1, visited)
          ELSE <<>>)
         \o DfsLoop(rels, target_id, max_depth, current_id, path, depth, visited, i + 1)

\* What find_path returns.
FindPathResult(rels, source_id, target_id, max_depth) ==
    Dfs(rels, target_id, max_depth, source_id, <<source_id>>, 0, {})

\* PathQuery with the query_type of query_entities.
PathQueryEntityKind(source_id, target_id, max_depth, now1, now2) ==
    [query_id |-> Md5(<<"path", "_", now1>>),
     query_text |-> <<"path from ", source_id, " to ", target_id,
                      ", max_depth=", max_depth>>,
     query_type |-> "entity",
     parameters |-> [source_id |-> source_id, target_id |-> target_id,
                     max_depth |-> max_depth],
     timestamp |-> now2]

\* The KnowledgeQuery find_path records.
PathQuery(source_id, target_id, max_depth, now1, now2) ==
    [query_id |-> Md5(<<"path", "_", now1>>),
     query_text |-> <<"path from ", source_id, " to ", target_id,
                      ", max_depth=", max_depth>>,
     query_type |-> "path",
     parameters |-> [source_id |-> source_id, target_id |-> target_id,
                     max_depth |-> max_depth],
     timestamp |-> now2]

\* find_path(source_id, target_id, max_depth)
FindPath(source_id, target_id, max_depth, now1, now2) ==
    /\ queries' = Append(queries, PathQuery(source_id, target_id, max_depth, now1, now2))
    /\ ret' = [op |-> "find_path", args |-> <<source_id, target_id, max_depth>>,
               hit |-> FALSE,
               result |-> FindPathResult(relations, source_id, target_id, max_depth)]
    /\ clock' = now2
    /\ UNCHANGED <<entities, relations, insights, disk, supplied, config, outputs>>

-----------------------------------------------------------------------------
(* Reasoner: infer_transitive_relations *)

RECURSIVE Flatten(_)
Flatten(ss) == IF ss = <<>> THEN <<>> ELSE Head(ss) \o Flatten(Tail(ss))

\* The keys of relation_graph, in insertion order: the source ids of rs in the
\* order they first occur.
RECURSIVE GraphSources(_)
GraphSources(rs) ==
    IF rs = <<>> THEN <<>>
    ELSE LET front == GraphSources(SubSeq(rs, 1, Len(rs) - 1))
             s == rs[Len(rs)].source_id IN
         IF \E i \in DOMAIN front : front[i] = s THEN front ELSE Append(front, s)

\* relation_graph[source]: the target ids of the relations of rs leaving source.
GraphTargets(rs, source) ==
    LET out == SelectSeq(rs, LAMBDA r : r.source_id = source) IN
    [i \in DOMAIN out |-> out[i].target_id]

\* The (source, target) pairs for which the three nested loops reach the
\* existence check, in loop order.
Chains(rs) ==
    LET sources == GraphSources(rs)
        IsKey(x) == \E i \in DOMAIN sources : sources[i] = x
        Via(source, intermediate) ==
            IF IsKey(intermediate)
            THEN LET ts == GraphTargets(rs, intermediate) IN
                 SelectSeq([k \in DOMAIN ts |-> <<source, ts[k]>>],
                           LAMBDA pr : pr[2] # source)
            ELSE <<>>
        From(source) ==
            LET mids == GraphTargets(rs, source) IN
            Flatten([j \in DOMAIN mids |-> Via(source, mids[j])]) IN
    Flatten([i \in DOMAIN sources |-> From(sources[i])])

\* properties={'inferred': True, 'inference_type': 'transitive'}
TransitiveProps ==
    [k \in {"inferred", "inference_type"} |->
        IF k = "inferred" THEN TRUE ELSE "transitive"]

InferredConfidence == 60

\* The loop `for source_id, target_id in new_relations` of
\* infer_transitive_relations: the relation map and the record of supplied
\* arguments after the add_relation calls for pairs, one after the other.
RECURSIVE AddInferred(_, _, _, _, _)
AddInferred(rels, sup, pairs, relation_type, now) ==
    IF pairs = <<>> THEN [relations |-> rels, supplied |-> sup]
    ELSE LET source_id == Head(pairs)[1]
             target_id == Head(pairs)[2] IN
         AddInferred(
             AddRelationStore(rels, source_id, target_id, relation_type,
                              Some(TransitiveProps), InferredConfidence, "reasoning",
                              now, now),
             Note(sup, "relation", <<source_id, relation_type, target_id>>,
                  RelationId(source_id, relation_type, target_id),
                  Some(TransitiveProps), InferredConfidence),
             Tail(pairs), relation_type, now)

\* NewRelations cut down to its first pair.
NewRelationsFirstOnly(rels, relation_type) ==
    LET found == SelectSeq(
            Chains(QueryRelationsResult(rels, None, None, Some(relation_type), 0)),
            LAMBDA pr : QueryRelationsResult(rels, Some(pr[1]), Some(pr[2]),
                                             Some(relation_type), 0) = <<>>) IN
    IF found = <<>> THEN <<>> ELSE <<Head(found)>>

\* new_relations: the chains whose existence check returns nothing.
NewRelations(rels, relation_type) ==
    SelectSeq(Chains(QueryRelationsResult(rels, None, None, Some(relation_type), 0)),
              LAMBDA pr : QueryRelationsResult(rels, Some(pr[1]), Some(pr[2]),
                                               Some(relation_type), 0) = <<>>)

\* The KnowledgeQuery records the query_relations calls of
\* infer_transitive_relations leave, in call order.
InferQueries(rels, relation_type, now) ==
    LET chains == Chains(QueryRelationsResult(rels, None, None, Some(relation_type), 0)) IN
    <<RelationQuery(None, None, Some(relation_type), 0, now, now)>>
        \o [i \in DOMAIN chains |->
               RelationQuery(Some(chains[i][1]), Some(chains[i][2]),
                             Some(relation_type), 0, now, now)]

\* infer_transitive_relations(relation_type). The clock is read as now by every
\* datetime.now() of the call.
InferTransitiveRelations(relation_type, now) ==
    LET new_relations == NewRelations(relations, relation_type)
        added == AddInferred(relations, supplied, new_relations, relation_type, now) IN
    /\ queries' = queries \o InferQueries(relations, relation_type, now)
    /\ relations' = added.relations
    /\ supplied' = added.supplied
    /\ disk' = IF new_relations = <<>> THEN disk
               ELSE SaveData(entities, relations', queries', insights)
    /\ ret' = [op |-> "infer_transitive_relations", args |-> <<relation_type>>,
               hit |-> FALSE,
               result |-> new_relations]
    /\ clock' = now
    /\ UNCHANGED <<entities, insights, config, outputs>>

-----------------------------------------------------------------------------
(* The state after KnowledgeGraphManager() on an empty data directory *)

(* Similarity: _calculate_similarity, find_similar_entities *)

\* set(name.lower().split()): the maximal runs of non-blank characters of the
\* lower-cased name.
Words(name) ==
    LET low == [i \in DOMAIN name |-> LowerChar(name[i])]
        IsWord(i, j) ==
            /\ i <= j
            /\ \A k \in i..j : low[k] # " "
            /\ (i = 1 \/ low[i - 1] = " ")
            /\ (j = Len(low) \/ low[j + 1] = " ") IN
    {SubSeq(low, pr[1], pr[2]) :
        pr \in {q \in (DOMAIN low) \X (DOMAIN low) : IsWord(q[1], q[2])}}

PyMin(a, b) == IF b < a THEN b ELSE a

\* len(intersection) / len(union) * weight, in hundredths. The division is
\* exact when the union has 1, 2, 4 or 5 elements and in every session below.
Overlap(set1, set2, weight) ==
    (Cardinality(set1 \cap set2) * weight) \div Cardinality(set1 \cup set2)

\* CalculateSimilarity with the name term taken over the words of the first
\* entity instead of the union.
CalculateSimilarityOverFirst(entity1, entity2) ==
    LET name1_words == Words(entity1.name)
        name2_words == Words(entity2.name)
        props1 == DOMAIN entity1.properties
        props2 == DOMAIN entity2.properties IN
    PyMin((IF entity1.type = entity2.type THEN 30 ELSE 0)
          + (IF name1_words # {} /\ name2_words # {}
             THEN (Cardinality(name1_words \cap name2_words) * 40)
                      \div Cardinality(name1_words)
             ELSE 0)
          + (IF props1 # {} /\ props2 # {} THEN Overlap(props1, props2, 30) ELSE 0),
          100)

\* _calculate_similarity(entity1, entity2), in hundredths.
CalculateSimilarity(entity1, entity2) ==
    LET name1_words == Words(entity1.name)
        name2_words == Words(entity2.name)
        props1 == DOMAIN entity1.properties
        props2 == DOMAIN entity2.properties IN
    PyMin((IF entity1.type = entity2.type THEN 30 ELSE 0)
          + (IF name1_words # {} /\ name2_words # {}
             THEN Overlap(name1_words, name2_words, 40) ELSE 0)
          + (IF props1 # {} /\ props2 # {} THEN Overlap(props1, props2, 30) ELSE 0),
          100)

SimilarTo == <<"similar_to">>

\* properties={'similarity_score': similarity, 'inferred': True}
SimilarProps(similarity) ==
    [k \in {"similarity_score", "inferred"} |->
        IF k = "inferred" THEN TRUE ELSE similarity]

\* The loop of find_similar_entities over others, the entities not yet visited:
\* st holds the relation map, the query list, the files, the record of supplied
\* arguments and the (id, similarity) pairs found so far.
RECURSIVE SimilarLoop(_, _, _, _, _)
SimilarLoop(st, others, target_entity, similarity_threshold, now) ==
    IF others = <<>> THEN st
    ELSE LET other_entity == Head(others)
             similarity == CalculateSimilarity(target_entity, other_entity)
             existing == QueryRelationsResult(st.relations, Some(target_entity.id),
                                              Some(other_entity.id), Some(SimilarTo), 0)
             asked == [st EXCEPT
                 !.similar = Append(@, [id |-> other_entity.id,
                                        confidence |-> similarity]),
                 !.queries = Append(@, RelationQuery(Some(target_entity.id),
                                                     Some(other_entity.id),
                                                     Some(SimilarTo), 0, now, now))]
             rels == AddRelationStore(st.relations, target_entity.id, other_entity.id,
                                      SimilarTo, Some(SimilarProps(similarity)),
                                      similarity, "reasoning", now, now)
             added == [asked EXCEPT
                 !.relations = rels,
                 !.disk = SaveData(st.entities, rels, asked.queries, st.insights),
                 !.supplied = Note(@, "relation",
                                   <<target_entity.id, SimilarTo, other_entity.id>>,
                                   RelationId(target_entity.id, SimilarTo,
                                              other_entity.id),
                                   Some(SimilarProps(similarity)), similarity)] IN
         SimilarLoop(IF other_entity.id = target_entity.id
                        \/ ~(similarity >= similarity_threshold)
                     THEN st
                     ELSE IF existing = <<>> THEN added ELSE asked,
                     Tail(others), target_entity, similarity_threshold, now)

\* find_similar_entities(entity_id, similarity_threshold). The clock is read as
\* now by every datetime.now() of the call.
FindSimilarEntities(entity_id, similarity_threshold, now) ==
    LET st == SimilarLoop([entities |-> entities, relations |-> relations,
                           queries |-> queries, insights |-> insights, disk |-> disk,
                           supplied |-> supplied, similar |-> <<>>],
                          entities, Lookup(entities, entity_id),
                          similarity_threshold, now)
        sorted == SortedByConfidence(st.similar) IN
    /\ ret' = [op |-> "find_similar_entities",
               args |-> <<entity_id, similarity_threshold>>, hit |-> FALSE,
               result |-> IF entity_id \in Ids(entities)
                          THEN [i \in DOMAIN sorted |-> sorted[i].id] ELSE <<>>]
    /\ IF entity_id \in Ids(entities)
       THEN /\ relations' = st.relations
            /\ queries' = st.queries
            /\ disk' = st.disk
            /\ supplied' = st.supplied
            /\ clock' = IF st.queries = queries THEN clock ELSE now
       ELSE UNCHANGED <<relations, queries, disk, supplied, clock>>
    /\ UNCHANGED <<entities, insights, config, outputs>>

-----------------------------------------------------------------------------
(* Recommendations: recommend_relations, _calculate_relation_confidence *)

\* type_based_relations.get(entity.type, ['related_to'])
SuggestedRelations(entity_type) ==
    CASE entity_type = <<"function">> -> << <<"uses">>, <<"implements">>, <<"calls">> >>
      [] entity_type = <<"class">> -> << <<"extends">>, <<"implements">>, <<"contains">> >>
      [] entity_type = <<"library">> -> << <<"provides">>, <<"depends_on">> >>
      [] entity_type = <<"error">> -> << <<"caused_by">>, <<"related_to">> >>
      [] entity_type = <<"file">> -> << <<"contains">>, <<"imports">> >>
      [] OTHER -> << <<"related_to">> >>

\* TypeCompatibility with the base 0.4 for a key that is not in the table.
TypeCompatibilityBase40(source_type, target_type, relation_type) ==
    LET key == <<source_type, target_type, relation_type>> IN
    CASE key = << <<"function">>, <<"library">>, <<"uses">> >> -> 80
      [] key = << <<"class">>, <<"class">>, <<"extends">> >> -> 90
      [] key = << <<"function">>, <<"function">>, <<"calls">> >> -> 70
      [] key = << <<"error">>, <<"file">>, <<"occurs_in">> >> -> 80
      [] key = << <<"file">>, <<"library">>, <<"imports">> >> -> 80
      [] OTHER -> 40

\* type_compatibility[key] if key in type_compatibility, else the base 0.3.
TypeCompatibility(source_type, target_type, relation_type) ==
    LET key == <<source_type, target_type, relation_type>> IN
    CASE key = << <<"function">>, <<"library">>, <<"uses">> >> -> 80
      [] key = << <<"class">>, <<"class">>, <<"extends">> >> -> 90
      [] key = << <<"function">>, <<"function">>, <<"calls">> >> -> 70
      [] key = << <<"error">>, <<"file">>, <<"occurs_in">> >> -> 80
      [] key = << <<"file">>, <<"library">>, <<"imports">> >> -> 80
      [] OTHER -> 30

\* _calculate_relation_confidence(source, target, relation_type), in hundredths.
CalculateRelationConfidence(source, target, relation_type) ==
    PyMin(TypeCompatibility(source.type, target.type, relation_type)
          + (CalculateSimilarity(source, target) * 20) \div 100, 100)

\* The two nested loops of recommend_relations, as one list of (other entity,
\* relation type) in loop order.
Candidates(ents, entity) ==
    LET suggested_relations == SuggestedRelations(entity.type)
        others == SelectSeq(ents, LAMBDA e : e.id # entity.id) IN
    Flatten([i \in DOMAIN others |->
                [j \in DOMAIN suggested_relations |->
                    [other_entity |-> others[i],
                     relation_type |-> suggested_relations[j]]]])

\* The recommendation recommend_relations appends for a candidate.
Recommendation(entity, c) ==
    [source_id |-> entity.id, target_id |-> c.other_entity.id,
     relation_type |-> c.relation_type,
     confidence |-> CalculateRelationConfidence(entity, c.other_entity, c.relation_type),
     reason |-> <<"Based on entity types: ", entity.type, " -> ", c.other_entity.type>>]

\* recommendations before the sort: the candidates with no existing relation
\* and a confidence above 0.5.
Recommendations(ents, rels, entity) ==
    LET kept == SelectSeq(Candidates(ents, entity), LAMBDA c :
            /\ QueryRelationsResult(rels, Some(entity.id), Some(c.other_entity.id),
                                    Some(c.relation_type), 0) = <<>>
            /\ CalculateRelationConfidence(entity, c.other_entity, c.relation_type) > 50) IN
    [i \in DOMAIN kept |-> Recommendation(entity, kept[i])]

\* recommendations[:max_recommendations] for max_recommendations >= 0.
Slice(seq, n) == SubSeq(seq, 1, PyMin(n, Len(seq)))

\* recommend_relations(entity_id, max_recommendations). The clock is read as now
\* by every datetime.now() of the call.
RecommendRelations(entity_id, max_recommendations, now) ==
    LET entity == Lookup(entities, entity_id)
        cs == Candidates(entities, entity) IN
    /\ ret' = [op |-> "recommend_relations",
               args |-> <<entity_id, max_recommendations>>, hit |-> FALSE,
               result |-> IF entity_id \in Ids(entities)
                          THEN Slice(SortedByConfidence(
                                   Recommendations(entities, relations, entity)),
                                   max_recommendations)
                          ELSE <<>>]
    /\ IF entity_id \in Ids(entities)
       THEN /\ queries' = queries \o
                   [i \in DOMAIN cs |->
                       RelationQuery(Some(entity_id), Some(cs[i].other_entity.id),
                                     Some(cs[i].relation_type), 0, now, now)]
            /\ clock' = IF cs = <<>> THEN clock ELSE now
       ELSE UNCHANGED <<queries, clock>>
    /\ UNCHANGED <<entities, relations, insights, disk, supplied, config, outputs>>

-----------------------------------------------------------------------------
(* Analysis: analyze_patterns *)

\* The keys of a Counter or defaultdict filled from xs, in insertion order: the
\* elements of xs in the order they first occur.
RECURSIVE Distinct(_)
Distinct(xs) ==
    IF xs = <<>> THEN <<>>
    ELSE LET front == Distinct(SubSeq(xs, 1, Len(xs) - 1))
             x == xs[Len(xs)] IN
         IF \E i \in DOMAIN front : front[i] = x THEN front ELSE Append(front, x)

\* dict(Counter(xs)): the (key, count) items in insertion order.
Counter(xs) ==
    LET keys == Distinct(xs) IN
    [i \in DOMAIN keys |->
        <<keys[i], Cardinality({n \in DOMAIN xs : xs[n] = keys[i]})>>]

\* max(items, key=lambda x: x[1]) and Counter.most_common(1)[0]: the first
\* item that has the largest count.
MaxItem(items) ==
    items[CHOOSE i \in DOMAIN items :
              /\ \A j \in DOMAIN items : items[j][2] <= items[i][2]
              /\ \A j \in 1..(i - 1) : items[j][2] < items[i][2]]

\* NodeDegrees with a relation counted for its source id only.
NodeDegreesOfSources(rels) ==
    Counter([i \in DOMAIN rels |-> rels[i].source_id])

\* node_degrees: each relation counts once for its source id and once for its
\* target id.
NodeDegrees(rels) ==
    Counter(Flatten([i \in DOMAIN rels |-> <<rels[i].source_id, rels[i].target_id>>]))

\* sorted(items, key=lambda x: x[1], reverse=True)[:5]
RECURSIVE SortedByCount(_)
SortedByCount(items) ==
    IF items = <<>> THEN <<>>
    ELSE LET x == Head(items)
             rest == SortedByCount(Tail(items)) IN
         SelectSeq(rest, LAMBDA y : y[2] > x[2])
             \o <<x>> \o SelectSeq(rest, LAMBDA y : y[2] <= x[2])

\* A KnowledgeInsight of analyze_patterns. The description keeps what the
\* f-string formats: the subject and the two numbers it is computed from.
PatternInsight(kind, title, subject, count, total, confidence, evidence, now) ==
    [insight_id |-> Md5(<<kind, "_", now>>),
     title |-> title,
     description |-> <<subject, count, total>>,
     insight_type |-> "pattern",
     confidence |-> confidence,
     evidence |-> <<evidence>>,
     created_at |-> now]

\* The insights list analyze_patterns builds.
PatternInsights(ents, rels, now) ==
    LET entity_types == Counter([i \in DOMAIN ents |-> ents[i].type])
        relation_types == Counter([i \in DOMAIN rels |-> rels[i].relation_type])
        node_degrees == NodeDegrees(rels)
        max_degree_node == MaxItem(node_degrees) IN
    (IF entity_types # <<>>
     THEN <<PatternInsight("entity_distribution", "entity type distribution",
                           MaxItem(entity_types)[1], MaxItem(entity_types)[2],
                           Len(ents), 90, entity_types, now)>>
     ELSE <<>>)
    \o (IF relation_types # <<>>
        THEN <<PatternInsight("relation_distribution", "relation type distribution",
                              MaxItem(relation_types)[1], MaxItem(relation_types)[2],
                              Len(rels), 90, relation_types, now)>>
        ELSE <<>>)
    \o (IF node_degrees # <<>> /\ max_degree_node[1] \in Ids(ents)
        THEN <<PatternInsight("connectivity", "connectivity",
                              Lookup(ents, max_degree_node[1]).name,
                              max_degree_node[2], max_degree_node[2], 80,
                              Slice(SortedByCount(node_degrees), 5), now)>>
        ELSE <<>>)

\* analyze_patterns(). The clock is read as now by every datetime.now() of the
\* call.
AnalyzePatterns(now) ==
    LET found == PatternInsights(entities, relations, now) IN
    /\ insights' = insights \o found
    /\ disk' = SaveData(entities, relations, queries, insights')
    /\ ret' = [op |-> "analyze_patterns", args |-> <<>>, hit |-> FALSE,
               result |-> found]
    /\ clock' = IF found = <<>> THEN clock ELSE now
    /\ UNCHANGED <<entities, relations, queries, supplied, config, outputs>>

-----------------------------------------------------------------------------
(* Statistics, export and retention: get_statistics, export_graph,            *)
(* cleanup_old_data                                                           *)

\* The clock ticks of one day: timedelta(days=1).
TicksPerDay == 1

RECURSIVE Sum(_)
Sum(xs) == IF xs = <<>> THEN 0 ELSE Head(xs) + Sum(Tail(xs))

\* round(total / n, digits) with the quotient scaled to an integer, 0 for an
\* empty collection; a half is rounded up.
Average(total, n, scale) == IF n = 0 THEN 0 ELSE (2 * total * scale + n) \div (2 * n)

\* The dict get_statistics returns; average confidences in thousandths,
\* avg_degree in hundredths.
Statistics(ents, rels, qs, ins, now) ==
    LET node_degrees == NodeDegrees(rels)
        degrees == [i \in DOMAIN node_degrees |-> node_degrees[i][2]] IN
    [entities |->
        [total |-> Len(ents),
         types |-> Counter([i \in DOMAIN ents |-> ents[i].type]),
         avg_confidence |->
             Average(Sum([i \in DOMAIN ents |-> ents[i].confidence]), Len(ents), 10)],
     relations |->
        [total |-> Len(rels),
         types |-> Counter([i \in DOMAIN rels |-> rels[i].relation_type]),
         avg_confidence |->
             Average(Sum([i \in DOMAIN rels |-> rels[i].confidence]), Len(rels), 10)],
     connectivity |->
        [avg_degree |-> Average(Sum(degrees), Len(degrees), 100),
         max_degree |-> IF degrees = <<>> THEN 0 ELSE MaxItem(node_degrees)[2],
         connected_nodes |-> Len(node_degrees)],
     queries |->
        [total |-> Len(qs),
         recent_24h |-> Len(SelectSeq(qs, LAMBDA q : q.timestamp > now - TicksPerDay))],
     insights |->
        [total |-> Len(ins),
         recent_7d |-> Len(SelectSeq(ins, LAMBDA i : i.created_at > now - 7 * TicksPerDay))]]

\* get_statistics(). The clock is read (as now) once per stored query and
\* insight.
GetStatistics(now) ==
    /\ ret' = [op |-> "get_statistics", args |-> <<>>, hit |-> FALSE,
               result |-> Statistics(entities, relations, queries, insights, now)]
    /\ clock' = IF queries = <<>> /\ insights = <<>> THEN clock ELSE now
    /\ UNCHANGED <<entities, relations, queries, insights, disk, supplied, config,
                   outputs>>

\* export_path: the export file name carries the time of the call.
ExportPath(now, extension) ==
    <<"outputs/knowledge/knowledge_graph_export_", now, ".", extension>>

\* export_data of the json export.
JsonExport(ents, rels, qs, ins, now) ==
    [metadata |-> [export_time |-> now, version |-> "1.0",
                   statistics |-> Statistics(ents, rels, qs, ins, now)],
     entities |-> EntitiesDoc(ents),
     relations |-> RelationsDoc(rels),
     insights |-> InsightsDoc(ins)]

\* graphml_content: the header, five lines per entity, four per relation, the
\* two closing lines.
GraphmlExport(ents, rels) ==
    <<"<?xml>", "<graphml>", "<graph>">>
    \o Flatten([i \in DOMAIN ents |->
          << <<"<node id=", ents[i].id>>, <<"name", ents[i].name>>,
             <<"type", ents[i].type>>, <<"confidence", ents[i].confidence>>,
             "</node>" >>])
    \o Flatten([i \in DOMAIN rels |->
          << <<"<edge source=", rels[i].source_id, "target=", rels[i].target_id>>,
             <<"type", rels[i].relation_type>>,
             <<"confidence", rels[i].confidence>>, "</edge>" >>])
    \o <<"</graph>", "</graphml>">>

\* open(export_path, 'w') and the write: the file of that path holds content.
WriteFile(files, path, content) ==
    {f \in files : f.path # path} \cup {[path |-> path, content |-> content]}

\* raise ValueError(message), as the caller sees it.
Raised(exception, message) == [raised |-> exception, message |-> message]

\* ExportGraph with the json document written before the format is examined.
ExportGraphWritesFirst(format_type, now) ==
    /\ outputs' =
         IF format_type = <<"graphml">>
         THEN WriteFile(outputs, ExportPath(now, "graphml"),
                        GraphmlExport(entities, relations))
         ELSE WriteFile(outputs, ExportPath(now, "json"),
                        JsonExport(entities, relations, queries, insights, now))
    /\ ret' = [op |-> "export_graph", args |-> <<format_type>>, hit |-> FALSE,
               result |-> IF format_type = <<"json">> THEN ExportPath(now, "json")
                          ELSE IF format_type = <<"graphml">>
                               THEN ExportPath(now, "graphml")
                          ELSE Raised("ValueError",
                                      <<"Unsupported export format: ", format_type>>)]
    /\ clock' = now
    /\ UNCHANGED <<entities, relations, queries, insights, disk, supplied, config>>

\* export_graph(format_type). The clock is read as now by every datetime.now()
\* of the call.
ExportGraph(format_type, now) ==
    /\ outputs' =
         IF format_type = <<"json">>
         THEN WriteFile(outputs, ExportPath(now, "json"),
                        JsonExport(entities, relations, queries, insights, now))
         ELSE IF format_type = <<"graphml">>
         THEN WriteFile(outputs, ExportPath(now, "graphml"),
                        GraphmlExport(entities, relations))
         ELSE outputs
    /\ ret' = [op |-> "export_graph", args |-> <<format_type>>, hit |-> FALSE,
               result |->
                   IF format_type = <<"json">> THEN ExportPath(now, "json")
                   ELSE IF format_type = <<"graphml">> THEN ExportPath(now, "graphml")
                   ELSE Raised("ValueError",
                               <<"Unsupported export format: ", format_type>>)]
    /\ clock' = now
    /\ UNCHANGED <<entities, relations, queries, insights, disk, supplied, config>>

\* dict.get(key, default)
Get(dict, key, default) == IF key \in DOMAIN dict THEN dict[key] ELSE default

\* CutoffDate with the retention period left out.
CutoffDateNow(days, now) == now

\* cutoff_date of cleanup_old_data.
CutoffDate(days, now) ==
    now - (IF days.some THEN days.val ELSE Get(config, "retention_days", 365)) * TicksPerDay

\* CleanupOldData keeping the records stamped later than the cutoff only.
CleanupOldDataStrict(days, now) ==
    LET cutoff_date == CutoffDate(days, now)
        kept_queries == SelectSeq(queries, LAMBDA q : q.timestamp > cutoff_date)
        kept_insights == SelectSeq(insights, LAMBDA i : i.created_at > cutoff_date) IN
    /\ queries' = kept_queries
    /\ insights' = kept_insights
    /\ disk' = SaveData(entities, relations, queries', insights')
    /\ ret' = [op |-> "cleanup_old_data", args |-> <<days>>, hit |-> FALSE,
               result |-> [cleaned_queries |-> Len(queries) - Len(kept_queries),
                           cleaned_insights |-> Len(insights) - Len(kept_insights),
                           remaining_queries |-> Len(queries'),
                           remaining_insights |-> Len(insights')]]
    /\ clock' = now
    /\ UNCHANGED <<entities, relations, supplied, config, outputs>>

\* CleanupOldData with the relations created before the cutoff removed too.
CleanupOldDataWithRelations(days, now) ==
    LET cutoff_date == CutoffDate(days, now)
        old_queries == SelectSeq(queries, LAMBDA q : q.timestamp < cutoff_date)
        old_insights == SelectSeq(insights, LAMBDA i : i.created_at < cutoff_date) IN
    /\ queries' = SelectSeq(queries, LAMBDA q : q.timestamp >= cutoff_date)
    /\ insights' = SelectSeq(insights, LAMBDA i : i.created_at >= cutoff_date)
    /\ relations' = SelectSeq(relations, LAMBDA r : r.created_at >= cutoff_date)
    /\ disk' = SaveData(entities, relations', queries', insights')
    /\ ret' = [op |-> "cleanup_old_data", args |-> <<days>>, hit |-> FALSE,
               result |-> [cleaned_queries |-> Len(old_queries),
                           cleaned_insights |-> Len(old_insights),
                           remaining_queries |-> Len(queries'),
                           remaining_insights |-> Len(insights')]]
    /\ clock' = now
    /\ UNCHANGED <<entities, supplied, config, outputs>>

\* cleanup_old_data(days); now is its datetime.now() read.
CleanupOldData(days, now) ==
    LET cutoff_date == CutoffDate(days, now)
        old_queries == SelectSeq(queries, LAMBDA q : q.timestamp < cutoff_date)
        old_insights == SelectSeq(insights, LAMBDA i : i.created_at < cutoff_date) IN
    /\ queries' = SelectSeq(queries, LAMBDA q : q.timestamp >= cutoff_date)
    /\ insights' = SelectSeq(insights, LAMBDA i : i.created_at >= cutoff_date)
    /\ disk' = SaveData(entities, relations, queries', insights')
    /\ ret' = [op |-> "cleanup_old_data", args |-> <<days>>, hit |-> FALSE,
               result |-> [cleaned_queries |-> Len(old_queries),
                           cleaned_insights |-> Len(old_insights),
                           remaining_queries |-> Len(queries'),
                           remaining_insights |-> Len(insights')]]
    /\ clock' = now
    /\ UNCHANGED <<entities, relations, supplied, config, outputs>>

-----------------------------------------------------------------------------
(* A process that stops inside the flush of a call *)

\* The value of ret once the process has stopped after k writes of a flush.
Stopped(k) == [op |-> "stopped", args |-> <<k>>, hit |-> FALSE, result |-> <<>>]

\* add_entity in a process that stops after k writes of its _save_data: the
\* collections are as the call left them, the call does not return.
AddEntityStopped(name, entity_type, properties, confidence, source, now1, now2, k) ==
    LET entity_id == EntityId(name, entity_type)
        hit == entity_id \in Ids(entities) IN
    /\ entities' = AddEntityStore(entities, name, entity_type, properties, confidence,
                                  source, now1, now2)
    /\ disk' = SaveDataStopped(disk, entities', relations, queries, insights, k)
    /\ clock' = IF hit THEN now1 ELSE now2
    /\ ret' = Stopped(k)
    /\ UNCHANGED <<relations, queries, insights, supplied, config, outputs>>

\* analyze_patterns in a process that stops after k writes of its _save_data.
AnalyzePatternsStopped(now, k) ==
    LET found == PatternInsights(entities, relations, now) IN
    /\ insights' = insights \o found
    /\ disk' = SaveDataStopped(disk, entities, relations, queries, insights', k)
    /\ ret' = Stopped(k)
    /\ clock' = IF found = <<>> THEN clock ELSE now
    /\ UNCHANGED <<entities, relations, queries, supplied, config, outputs>>

-----------------------------------------------------------------------------
\* The dict _load_config returns when the configuration file does not exist
\* (the keys the manager reads).
DefaultConfig ==
    [k \in {"data_directory", "retention_days"} |->
        IF k = "data_directory" THEN <<"data/knowledge">> ELSE 365]

\* The value of config while no manager has been constructed.
NoManager == [k \in {"no manager"} |-> TRUE]

\* The configuration file: its text is a json object (value), text that is not
\* json, or the file cannot be opened for reading.
JsonFile(value) == File([kind |-> "json", value |-> value])
UnparsableFile == File([kind |-> "text", value |-> EmptyMap])
UnreadableFile == File([kind |-> "denied", value |-> EmptyMap])

\* _load_config(): the dict it returns, or the exception open and json.load
\* let through.
LoadConfig(file) ==
    IF ~file.exists THEN DefaultConfig
    ELSE IF file.doc.kind = "denied" THEN Raised("PermissionError", <<"config">>)
    ELSE IF file.doc.kind = "text" THEN Raised("JSONDecodeError", <<"config">>)
    ELSE file.doc.value

\* The value of a field of a json object written by to_dict.
Field(d, name) == d[CHOOSE i \in DOMAIN d : d[i][1] = name][2]

\* KnowledgeEntity(**entity_data) and the other three dataclasses.
EntityFromDict(d) ==
    [id |-> Field(d, "id"), name |-> Field(d, "name"), type |-> Field(d, "type"),
     properties |-> Field(d, "properties"), confidence |-> Field(d, "confidence"),
     created_at |-> Field(d, "created_at"), updated_at |-> Field(d, "updated_at"),
     source |-> Field(d, "source")]

\* RelationFromDict with the two endpoint fields taken from each other's key.
RelationFromDictSwapped(d) ==
    [id |-> Field(d, "id"), source_id |-> Field(d, "target_id"),
     target_id |-> Field(d, "source_id"),
     relation_type |-> Field(d, "relation_type"),
     properties |-> Field(d, "properties"), confidence |-> Field(d, "confidence"),
     created_at |-> Field(d, "created_at"), updated_at |-> Field(d, "updated_at"),
     source |-> Field(d, "source")]

RelationFromDict(d) ==
    [id |-> Field(d, "id"), source_id |-> Field(d, "source_id"),
     target_id |-> Field(d, "target_id"),
     relation_type |-> Field(d, "relation_type"),
     properties |-> Field(d, "properties"), confidence |-> Field(d, "confidence"),
     created_at |-> Field(d, "created_at"), updated_at |-> Field(d, "updated_at"),
     source |-> Field(d, "source")]

QueryFromDict(d) ==
    [query_id |-> Field(d, "query_id"), query_text |-> Field(d, "query_text"),
     query_type |-> Field(d, "query_type"), parameters |-> Field(d, "parameters"),
     timestamp |-> Field(d, "timestamp")]

InsightFromDict(d) ==
    [insight_id |-> Field(d, "insight_id"), title |-> Field(d, "title"),
     description |-> Field(d, "description"),
     insight_type |-> Field(d, "insight_type"),
     confidence |-> Field(d, "confidence"), evidence |-> Field(d, "evidence"),
     created_at |-> Field(d, "created_at")]

\* _load_data(): each collection is read from its file if the file exists.
LoadData(files) ==
    [entities |-> [i \in DOMAIN files.entities.doc |->
                      EntityFromDict(files.entities.doc[i])],
     relations |-> [i \in DOMAIN files.relations.doc |->
                       RelationFromDict(files.relations.doc[i])],
     queries |-> [i \in DOMAIN files.queries.doc |->
                     QueryFromDict(files.queries.doc[i])],
     insights |-> [i \in DOMAIN files.insights.doc |->
                      InsightFromDict(files.insights.doc[i])]]

\* KnowledgeGraphManager(config_path) with the configuration file being file:
\* a new manager over the data directory, or the exception of _load_config.
Construct(file) ==
    LET loaded == LoadConfig(file)
        raised == "raised" \in DOMAIN loaded IN
    /\ ret' = [op |-> "__init__", args |-> <<file>>, hit |-> FALSE, result |-> loaded]
    /\ config' = IF raised THEN NoManager ELSE loaded
    /\ entities' = IF raised THEN <<>> ELSE LoadData(disk).entities
    /\ relations' = IF raised THEN <<>> ELSE LoadData(disk).relations
    /\ queries' = IF raised THEN <<>> ELSE LoadData(disk).queries
    /\ insights' = IF raised THEN <<>> ELSE LoadData(disk).insights
    /\ UNCHANGED <<disk, clock, supplied, outputs>>

\* A call of a function decorated with knowledge_tracking: the wrapper builds
\* a KnowledgeTracker, whose manager loads the data directory, and
\* track_code_execution upserts the entity (function_name, 'context') into
\* that manager, which flushes. The manager the caller holds is not involved.
TrackedCall(function_name, now) ==
    LET loaded == LoadData(disk)
        properties == Some([k \in {"context_key"} |-> <<"function_name">>])
        entity_id == EntityId(function_name, <<"context">>)
        tracked == AddEntityStore(loaded.entities, function_name, <<"context">>,
                                  properties, 70, "context_tracking", now, now) IN
    /\ disk' = SaveData(tracked, loaded.relations, loaded.queries, loaded.insights)
    /\ supplied' = Note(supplied, "entity", <<function_name, <<"context">> >>,
                        entity_id, properties, 70)
    /\ ret' = [op |-> "knowledge_tracking", args |-> <<function_name>>, hit |-> FALSE,
               result |-> entity_id]
    /\ clock' = now
    /\ UNCHANGED <<entities, relations, queries, insights, config, outputs>>

\* __init__ with no configuration file and an empty data directory.
Init ==
    /\ entities = <<>>
    /\ relations = <<>>
    /\ queries = <<>>
    /\ insights = <<>>
    /\ disk = [entities |-> NoFile, relations |-> NoFile,
               queries |-> NoFile, insights |-> NoFile]
    /\ clock = 0
    /\ ret = [op |-> "init", args |-> <<>>, hit |-> FALSE, result |-> <<>>]
    /\ supplied = {}
    /\ calls = 0
    /\ config = DefaultConfig
    /\ outputs = {}

\* One more call of a session of at most MaxCalls calls.
Counted == calls < MaxCalls /\ calls' = calls + 1

-----------------------------------------------------------------------------
(* Sessions of every operation *)

EntityA == EntityId(<<"a">>, <<"c">>)
EntityB == EntityId(<<"A", " ", "b">>, <<"c">>)
NodeC == <<"n">>

\* (name, type) pairs.
Keys == {<< <<"a">>, <<"c">> >>, << <<"A", " ", "b">>, <<"c">> >>}

\* (source id, target id, relation type) triples.
Triples == {<<EntityA, EntityB, <<"uses">> >>, <<EntityB, NodeC, <<"uses">> >>}

\* (properties, confidence, source) of an upsert.
Args == {<<None, 50, "manual">>, <<Some([k \in {"k1"} |-> 1]), 90, "code">>}

\* (entity_type, name_pattern, min_confidence) of query_entities.
EntityFilters == {<<None, Some(<<"B">>), 0>>, <<Some(<<>>), Some(<<"a">>), 60>>}

\* (source_id, target_id, relation_type, min_confidence) of query_relations.
RelationFilters == {<<Some(EntityA), None, Some(<<"uses">>), 60>>,
                    <<Some(<<>>), Some(NodeC), Some(<<>>), 0>>}

\* (source_id, target_id, max_depth) of find_path.
PathArgs == {<<EntityA, NodeC, 2>>, <<EntityA, NodeC, 1>>}

InferTypes == {<<"uses">>}

DoAddEntity ==
    \E key \in Keys, a \in Args : \E now \in Tick(clock) :
        AddEntity(key[1], key[2], a[1], a[2], a[3], now, now) /\ Counted

DoAddRelation ==
    \E t \in Triples, a \in Args : \E now \in Tick(clock) :
        AddRelation(t[1], t[2], t[3], a[1], a[2], a[3], now, now) /\ Counted

DoQueryEntities ==
    \E f \in EntityFilters :
        QueryEntities(f[1], f[2], f[3], clock, clock) /\ Counted

DoQueryRelations ==
    \E f \in RelationFilters :
        QueryRelations(f[1], f[2], f[3], f[4], clock, clock) /\ Counted

DoFindPath ==
    \E a \in PathArgs :
        FindPath(a[1], a[2], a[3], clock, clock) /\ Counted

DoInfer ==
    \E relation_type \in InferTypes : \E now \in Tick(clock) :
        InferTransitiveRelations(relation_type, now) /\ Counted

Next ==
    \/ DoAddEntity
    \/ DoAddRelation
    \/ DoQueryEntities
    \/ DoQueryRelations
    \/ DoFindPath
    \/ DoInfer

Spec == Init /\ [][Next]_vars

-----------------------------------------------------------------------------
(* Sessions of entity upserts, with varied arguments and clock readings *)

\* (name, type) pairs; the first two give the same f-string "a_b_c".
EKeys == {<< <<"a", "_", "b">>, <<"c">> >>, << <<"a">>, <<"b", "_", "c">> >>,
          << <<"a">>, <<"c">> >>}

\* (properties, confidence, source) of an upsert.
UArgs == {<<None, 50, "manual">>,
          <<Some([k \in {"k1"} |-> 1]), 90, "code">>,
          <<Some([k \in {"k1", "k2"} |-> 2]), 50, "code">>}

UpsertEntity ==
    \E key \in EKeys, a \in UArgs :
    \E now1 \in Tick(clock) : \E now2 \in Tick(now1) :
        AddEntity(key[1], key[2], a[1], a[2], a[3], now1, now2) /\ Counted

NextEntity == UpsertEntity

SpecEntity == Init /\ [][NextEntity]_vars

-----------------------------------------------------------------------------
(* Sessions of relation upserts, with varied arguments and clock readings *)

\* (source id, target id, relation type) triples; the first two give the same
\* f-string "x_y_r_z".
RKeys == {<< <<"x", "_", "y">>, <<"z">>, <<"r">> >>,
          << <<"x">>, <<"z">>, <<"y", "_", "r">> >>,
          << EntityA, EntityB, <<"r">> >>}

UpsertRelation ==
    \E t \in RKeys, a \in UArgs :
    \E now1 \in Tick(clock) : \E now2 \in Tick(now1) :
        AddRelation(t[1], t[2], t[3], a[1], a[2], a[3], now1, now2) /\ Counted

NextRelation == UpsertRelation

SpecRelation == Init /\ [][NextRelation]_vars

-----------------------------------------------------------------------------
(* Sessions of path searches over small relation graphs *)

NodeA == <<"A">>
NodeB == <<"B">>
NodeD == <<"D">>
NodeE == <<"E">>

\* (source id, target id, relation type) triples: a chain, a shortcut, parallel
\* edges, cycles and a self-loop.
PathEdges ==
    {<<NodeA, NodeB, <<"uses">> >>, <<NodeB, NodeD, <<"requires">> >>,
     <<NodeA, NodeD, <<"requires">> >>, <<NodeB, NodeA, <<"uses">> >>,
     <<NodeD, NodeB, <<"uses">> >>, <<NodeA, NodeA, <<"uses">> >>,
     <<NodeA, NodeB, <<"requires">> >>}

PathEnds == {<<NodeA, NodeD>>, <<NodeA, NodeA>>, <<NodeB, NodeA>>}
PathDepths == 0..3

PathAddRelation ==
    \E t \in PathEdges :
        /\ Len(relations) < MaxPathRelations
        /\ AddRelation(t[1], t[2], t[3], None, 100, "manual", clock, clock)
        /\ UNCHANGED calls

PathFindPath ==
    \E e \in PathEnds, max_depth \in PathDepths :
        /\ Len(queries) < MaxPathQueries
        /\ FindPath(e[1], e[2], max_depth, clock, clock)
        /\ UNCHANGED calls

NextPath == PathAddRelation \/ PathFindPath

SpecPath == Init /\ [][NextPath]_vars

-----------------------------------------------------------------------------
(* Sessions of transitive inference over small relation graphs: the caller   *)
(* upserts the relations, then calls the reasoner.                            *)

\* (source id, target id, relation type, confidence) of an upsert: a chain
\* A -> B -> D, a second intermediate E, a cycle back to A, a relation of
\* another type and the shortcut A -> D itself.
InferEdges ==
    {<<NodeA, NodeB, <<"calls">>, 50>>, <<NodeB, NodeD, <<"calls">>, 50>>,
     <<NodeA, NodeE, <<"calls">>, 90>>, <<NodeE, NodeD, <<"calls">>, 50>>,
     <<NodeB, NodeA, <<"calls">>, 50>>, <<NodeB, NodeD, <<"uses">>, 50>>,
     <<NodeA, NodeD, <<"calls">>, 50>>}

InferRelationTypes == {<<"calls">>, <<>>}

InferAddRelation ==
    \E t \in InferEdges :
        /\ Len(relations) < MaxInferRelations
        /\ queries = <<>>
        /\ AddRelation(t[1], t[2], t[3], None, t[4], "manual", clock, clock)
        /\ UNCHANGED calls

InferInfer ==
    \E relation_type \in InferRelationTypes :
        /\ InferTransitiveRelations(relation_type, clock)
        /\ Len(queries') <= MaxInferQueries
        /\ UNCHANGED calls

NextInfer == InferAddRelation \/ InferInfer

SpecInfer == Init /\ [][NextInfer]_vars

\* The same sessions when the caller only asks for a named relation type.
InferNamed ==
    \E relation_type \in InferRelationTypes \ {<<>>} :
        /\ InferTransitiveRelations(relation_type, clock)
        /\ Len(queries') <= MaxInferQueries
        /\ UNCHANGED calls

NextInferNamed == InferAddRelation \/ InferNamed

SpecInferNamed == Init /\ [][NextInferNamed]_vars

-----------------------------------------------------------------------------
(* The similarity of two entity records, for every pair drawn from a few      *)
(* names (empty, blank, one and two words, upper and lower case), two types   *)
(* and four property maps; one application per behaviour.                     *)

SimNames == {<<>>, <<" ">>, <<"a">>, <<"A">>, <<"b">>, <<"a", " ", "b">>}
SimTypes == {<<"function">>, <<"library">>}
SimProps == {[k \in K |-> 1] : K \in SUBSET {"k1", "k2"}}

SimEntities ==
    {NewEntity(EntityId(n, t), n, t, Some(p), 50, "manual", 0, 0) :
        n \in SimNames, t \in SimTypes, p \in SimProps}

Similarity ==
    \E entity1 \in SimEntities, entity2 \in SimEntities :
        /\ calls = 0
        /\ calls' = 1
        /\ ret' = [op |-> "_calculate_similarity", args |-> <<entity1, entity2>>,
                   hit |-> FALSE, result |-> CalculateSimilarity(entity1, entity2)]
        /\ UNCHANGED <<entities, relations, queries, insights, disk, clock, supplied,
                       config, outputs>>

NextSimilarity == Similarity

SpecSimilarity == Init /\ [][NextSimilarity]_vars

-----------------------------------------------------------------------------
(* Sessions of similarity search and recommendation: the caller upserts        *)
(* entities, then relations between them, then calls the reasoner.             *)

\* (name, type, property keys) of an upsert. To the first, the similarity of
\* the second is 0.65, of the third 1.0 and of the fourth 0.4.
SimilarKeys ==
    {<< <<"a">>, <<"function">>, {"k1"} >>,
     << <<"A", " ", "b">>, <<"function">>, {"k1", "k2"} >>,
     << <<"A">>, <<"function">>, {"k1"} >>,
     << <<"a">>, <<"library">>, {} >>}

FunctionA == EntityId(<<"a">>, <<"function">>)
FunctionAB == EntityId(<<"A", " ", "b">>, <<"function">>)
FunctionUpperA == EntityId(<<"A">>, <<"function">>)
LibraryA == EntityId(<<"a">>, <<"library">>)

\* (source id, target id, relation type, confidence) of an upsert by the
\* caller: a similar_to relation and a candidate relation that exist before the
\* reasoner runs, and one of each stored with a confidence below 0.
SimilarEdges ==
    {<<FunctionA, FunctionUpperA, SimilarTo, 50>>,
     <<FunctionA, FunctionAB, SimilarTo, -10>>,
     <<FunctionA, LibraryA, <<"uses">>, 90>>,
     <<FunctionA, FunctionUpperA, <<"calls">>, -10>>}

SimilarThresholds == {50, 70}
SimilarMax == {0, 1, 5}

SimilarAddEntity ==
    \E k \in SimilarKeys :
        /\ Len(entities) < MaxSimilarEntities
        /\ relations = <<>>
        /\ AddEntity(k[1], k[2], Some([p \in k[3] |-> 1]), 50, "manual", clock, clock)
        /\ UNCHANGED calls

SimilarAddRelation ==
    \E t \in SimilarEdges :
        /\ Len(relations) < MaxSimilarRelations
        /\ calls = 0
        /\ AddRelation(t[1], t[2], t[3], None, t[4], "manual", clock, clock)
        /\ UNCHANGED calls

SimilarFind ==
    \E entity_id \in {FunctionA, FunctionUpperA}, t \in SimilarThresholds :
        /\ calls < MaxSimilarCalls
        /\ calls' = calls + 1
        /\ FindSimilarEntities(entity_id, t, clock)

SimilarRecommend ==
    \E n \in SimilarMax :
        /\ calls < MaxSimilarCalls
        /\ calls' = calls + 1
        /\ RecommendRelations(FunctionA, n, clock)

NextSimilar == SimilarAddEntity \/ SimilarAddRelation \/ SimilarFind \/ SimilarRecommend

SpecSimilar == Init /\ [][NextSimilar]_vars

-----------------------------------------------------------------------------
(* Sessions over the whole interface of the manager and the reasoner, every    *)
(* upsert supplying a confidence in [0, 1].                                    *)

ExportFormats == {<<"json">>, <<"graphml">>, <<"xml">>}

Operated == calls < MaxOps /\ calls' = calls + 1

StoreAddEntity ==
    \E key \in Keys, a \in Args :
        AddEntity(key[1], key[2], a[1], a[2], a[3], clock, clock) /\ Operated

StoreAddRelation ==
    \E t \in Triples, a \in Args :
        AddRelation(t[1], t[2], t[3], a[1], a[2], a[3], clock, clock) /\ Operated

StoreQueryEntities == QueryEntities(None, None, 0, clock, clock) /\ Operated

StoreQueryRelations == QueryRelations(None, None, None, 0, clock, clock) /\ Operated

StoreFindPath == FindPath(EntityA, NodeC, 2, clock, clock) /\ Operated

StoreInfer == InferTransitiveRelations(<<"uses">>, clock) /\ Operated

StoreFindSimilar == FindSimilarEntities(EntityA, 50, clock) /\ Operated

StoreRecommend == RecommendRelations(EntityA, 5, clock) /\ Operated

StoreAnalyze == AnalyzePatterns(clock) /\ Operated

StoreStatistics == GetStatistics(clock) /\ Operated

StoreExport == \E format_type \in ExportFormats : ExportGraph(format_type, clock) /\ Operated

StoreCleanup ==
    \E days \in {None, Some(0)} : \E now \in Tick(clock) :
        CleanupOldData(days, now) /\ Operated

NextStore ==
    \/ StoreAddEntity
    \/ StoreAddRelation
    \/ StoreQueryEntities
    \/ StoreQueryRelations
    \/ StoreFindPath
    \/ StoreInfer
    \/ StoreFindSimilar
    \/ StoreRecommend
    \/ StoreAnalyze
    \/ StoreStatistics
    \/ StoreExport
    \/ StoreCleanup

SpecStore == Init /\ [][NextStore]_vars

-----------------------------------------------------------------------------
(* Sessions of retention: queries and analyses stamp their records with the    *)
(* clock, which may advance between two calls, and cleanups remove them.       *)

\* days of cleanup_old_data: the configured retention, 0, 1 and 100000 days.
CleanDays == {None, Some(0), Some(1), Some(100000)}

Cleaned == calls < MaxCleanCalls /\ calls' = calls + 1

CleanAddEntity ==
    \E now \in Tick(clock) :
        AddEntity(<<"a">>, <<"c">>, None, 50, "manual", now, now) /\ Cleaned

CleanQuery ==
    \E now \in Tick(clock) : QueryEntities(None, None, 0, now, now) /\ Cleaned

CleanAnalyze == \E now \in Tick(clock) : AnalyzePatterns(now) /\ Cleaned

CleanCleanup ==
    \E days \in CleanDays : \E now \in Tick(clock) :
        CleanupOldData(days, now) /\ Cleaned

NextCleanup == CleanAddEntity \/ CleanQuery \/ CleanAnalyze \/ CleanCleanup

SpecCleanup == Init /\ [][NextCleanup]_vars

-----------------------------------------------------------------------------
(* Sessions of construction: a process constructs a manager over the          *)
(* configuration file it finds, works with it, and a later process constructs *)
(* a manager again over the same data directory. No configuration file of a   *)
(* session names another data directory.                                      *)

MaxConfigCalls == 4       \* calls of a session of SpecConfig

\* The configuration file at construction: absent, a json object with or
\* without a retention period, text that is not json, a file that cannot be read.
ConfigFiles ==
    {NoFile, JsonFile(EmptyMap), JsonFile([k \in {"retention_days"} |-> 0]),
     UnparsableFile, UnreadableFile}

\* No manager has been constructed yet.
InitConfig ==
    /\ entities = <<>>
    /\ relations = <<>>
    /\ queries = <<>>
    /\ insights = <<>>
    /\ disk = [entities |-> NoFile, relations |-> NoFile,
               queries |-> NoFile, insights |-> NoFile]
    /\ clock = 0
    /\ ret = [op |-> "init", args |-> <<>>, hit |-> FALSE, result |-> <<>>]
    /\ supplied = {}
    /\ calls = 0
    /\ config = NoManager
    /\ outputs = {}

Configured == config # NoManager /\ calls < MaxConfigCalls /\ calls' = calls + 1

ConfigConstruct ==
    \E file \in ConfigFiles :
        Construct(file) /\ calls < MaxConfigCalls /\ calls' = calls + 1

ConfigAddEntity ==
    \E now \in Tick(clock) :
        AddEntity(<<"a">>, <<"c">>, None, 50, "manual", now, now) /\ Configured

ConfigQuery ==
    \E now \in Tick(clock) : QueryEntities(None, None, 0, now, now) /\ Configured

ConfigCleanup == \E now \in Tick(clock) : CleanupOldData(None, now) /\ Configured

NextConfig == ConfigConstruct \/ ConfigAddEntity \/ ConfigQuery \/ ConfigCleanup

SpecConfig == InitConfig /\ [][NextConfig]_vars

-----------------------------------------------------------------------------
(* Sessions of absent data: the caller builds a store, whose relations may    *)
(* form a cycle, and asks for ids, types and patterns that no record has.     *)

MaxAbsentCalls == 2       \* questions of a session of SpecAbsent

Nowhere == <<"z">>

\* (entity_type, name_pattern, min_confidence) of query_entities.
AbsentEntityFilters ==
    {<<Some(Nowhere), None, 0>>, <<None, Some(Nowhere), 0>>, <<Some(<<>>), None, 0>>}

\* (source_id, target_id, relation_type, min_confidence) of query_relations.
AbsentRelationFilters ==
    {<<Some(Nowhere), None, None, 0>>, <<None, None, Some(<<>>), 0>>}

\* (source_id, target_id) of find_path.
AbsentEnds == {<<Nowhere, EntityA>>, <<EntityA, Nowhere>>}

\* (source_id, target_id) of the upserted relations: a cycle and a self-loop.
AbsentEdges == {<<EntityA, EntityB>>, <<EntityB, EntityA>>, <<EntityB, EntityB>>}

\* The store is built before the first question.
Building == calls = 0 /\ UNCHANGED calls

Asked == calls < MaxAbsentCalls /\ calls' = calls + 1

AbsentAddEntity ==
    \E key \in Keys :
        AddEntity(key[1], key[2], None, 50, "manual", clock, clock) /\ Building

AbsentAddRelation ==
    \E e \in AbsentEdges :
        AddRelation(e[1], e[2], <<"uses">>, None, 50, "manual", clock, clock) /\ Building

AbsentQueryEntities ==
    \E f \in AbsentEntityFilters : QueryEntities(f[1], f[2], f[3], clock, clock) /\ Asked

AbsentQueryRelations ==
    \E f \in AbsentRelationFilters :
        QueryRelations(f[1], f[2], f[3], f[4], clock, clock) /\ Asked

AbsentFindPath == \E e \in AbsentEnds : FindPath(e[1], e[2], 3, clock, clock) /\ Asked

AbsentFindSimilar == FindSimilarEntities(Nowhere, 50, clock) /\ Asked

AbsentRecommend == RecommendRelations(Nowhere, 5, clock) /\ Asked

AbsentAnalyze == AnalyzePatterns(clock) /\ Asked

NextAbsent ==
    \/ AbsentAddEntity
    \/ AbsentAddRelation
    \/ AbsentQueryEntities
    \/ AbsentQueryRelations
    \/ AbsentFindPath
    \/ AbsentFindSimilar
    \/ AbsentRecommend
    \/ AbsentAnalyze

SpecAbsent == Init /\ [][NextAbsent]_vars

-----------------------------------------------------------------------------
(* Sessions of reload: a process upserts, queries and analyses, and a later   *)
(* process constructs a manager over the same data directory.                 *)

MaxReloadCalls == 5       \* calls of a session of SpecReload

Reloaded == calls < MaxReloadCalls /\ calls' = calls + 1

ReloadAddEntity ==
    \E a \in Args : \E now \in Tick(clock) :
        AddEntity(<<"a">>, <<"c">>, a[1], a[2], a[3], now, now) /\ Reloaded

ReloadAddRelation ==
    \E t \in Triples : \E now \in Tick(clock) :
        AddRelation(t[1], t[2], t[3], None, 50, "manual", now, now) /\ Reloaded

ReloadQuery ==
    QueryRelations(Some(EntityA), None, None, 0, clock, clock) /\ Reloaded

ReloadAnalyze == AnalyzePatterns(clock) /\ Reloaded

ReloadConstruct == Construct(NoFile) /\ Reloaded

NextReload ==
    \/ ReloadAddEntity
    \/ ReloadAddRelation
    \/ ReloadQuery
    \/ ReloadAnalyze
    \/ ReloadConstruct

SpecReload == Init /\ [][NextReload]_vars

-----------------------------------------------------------------------------
(* Sessions of repeated inference: the caller upserts the relations of a      *)
(* chain X0 -> X1 -> ... -> XN of one type, in any order, then calls the      *)
(* reasoner again and again.                                                  *)

MaxChain == 4             \* relations of the chain of a session of SpecChain
MaxChainCalls == 4        \* reasoner calls of a session of SpecChain

\* The id of Xi: i + 1 characters.
ChainNode(i) == [k \in 1..(i + 1) |-> "x"]

ChainType == <<"calls">>

\* The i with Xi -> X(i+1) stored.
ChainLinks ==
    {i \in 0..(MaxChain - 1) :
        \E j \in DOMAIN relations : /\ relations[j].source_id = ChainNode(i)
                                    /\ relations[j].target_id = ChainNode(i + 1)}

ChainAddRelation ==
    \E i \in (0..(MaxChain - 1)) \ ChainLinks :
        /\ calls = 0
        /\ AddRelation(ChainNode(i), ChainNode(i + 1), ChainType, None, 100, "manual",
                       clock, clock)
        /\ UNCHANGED calls

ChainInfer ==
    \E now \in Tick(clock) :
        /\ ChainLinks # {}
        /\ ChainLinks = 0..(Cardinality(ChainLinks) - 1)
        /\ calls < MaxChainCalls
        /\ calls' = calls + 1
        /\ InferTransitiveRelations(ChainType, now)

NextChain == ChainAddRelation \/ ChainInfer

SpecChain == Init /\ [][NextChain]_vars

-----------------------------------------------------------------------------
(* Sessions of one process that upserts, queries and analyses, and may stop   *)
(* between two writes of a flush; a stopped process makes no further call.    *)

MaxCrashCalls == 4        \* calls of a session of SpecCrash

Running == ret.op # "stopped" /\ calls < MaxCrashCalls /\ calls' = calls + 1

CrashAddEntity ==
    \E key \in Keys : \E now \in Tick(clock) :
        AddEntity(key[1], key[2], None, 50, "manual", now, now) /\ Running

CrashQuery ==
    \E now \in Tick(clock) : QueryEntities(None, None, 0, now, now) /\ Running

CrashAnalyze == \E now \in Tick(clock) : AnalyzePatterns(now) /\ Running

CrashAddEntityStopped ==
    \E key \in Keys, k \in 0..4 : \E now \in Tick(clock) :
        AddEntityStopped(key[1], key[2], None, 50, "manual", now, now, k) /\ Running

CrashAnalyzeStopped ==
    \E k \in 0..4 : \E now \in Tick(clock) : AnalyzePatternsStopped(now, k) /\ Running

NextCrash ==
    \/ CrashAddEntity
    \/ CrashQuery
    \/ CrashAnalyze
    \/ CrashAddEntityStopped
    \/ CrashAnalyzeStopped

SpecCrash == Init /\ [][NextCrash]_vars

-----------------------------------------------------------------------------
(* Sessions of statistics: relations between stored entities and other ids,   *)
(* a self-loop among them, then get_statistics.                               *)

MaxDegreeRelations == 3   \* relations of a session of SpecDegrees

\* (source_id, target_id) of the upserted relations.
DegreeEdges ==
    {<<EntityA, EntityA>>, <<EntityA, EntityB>>, <<EntityB, NodeC>>, <<NodeC, EntityA>>}

DegreesAddEntity ==
    \E key \in Keys :
        /\ AddEntity(key[1], key[2], None, 50, "manual", clock, clock)
        /\ UNCHANGED calls

DegreesAddRelation ==
    \E e \in DegreeEdges, relation_type \in {<<"uses">>, <<"calls">>} :
        /\ Len(relations) < MaxDegreeRelations
        /\ AddRelation(e[1], e[2], relation_type, None, 50, "manual", clock, clock)
        /\ UNCHANGED calls

DegreesStatistics == GetStatistics(clock) /\ UNCHANGED calls

NextDegrees == DegreesAddEntity \/ DegreesAddRelation \/ DegreesStatistics

SpecDegrees == Init /\ [][NextDegrees]_vars

-----------------------------------------------------------------------------
(* Sessions of two managers on one data directory: the caller works in a      *)
(* knowledge_context block, whose tracker holds one manager, and calls        *)
(* functions decorated with knowledge_tracking, each building its own.        *)

MaxTwoCalls == 4          \* calls of a session of SpecTwo

ContextNames == {<<"a">>, <<"b">>}
FunctionNames == {<<"f">>, <<"a">>}

Shared == calls < MaxTwoCalls /\ calls' = calls + 1

\* knowledge_context and the tracker it yields: upserts through its manager.
TwoAddEntity ==
    \E name \in ContextNames : \E now \in Tick(clock) :
        AddEntity(name, <<"context">>, None, 90, "context_management", now, now)
            /\ Shared

TwoAddRelation ==
    \E name \in ContextNames : \E now \in Tick(clock) :
        AddRelation(EntityId(name, <<"context">>), EntityId(<<"f">>, <<"context">>),
                    <<"uses">>, None, 50, "manual", now, now) /\ Shared

TwoTrackedCall ==
    \E function_name \in FunctionNames : \E now \in Tick(clock) :
        TrackedCall(function_name, now) /\ Shared

NextTwo == TwoAddEntity \/ TwoAddRelation \/ TwoTrackedCall

SpecTwo == Init /\ [][NextTwo]_vars

-----------------------------------------------------------------------------
(* Sessions of transitive inference over relations of any stored confidence:  *)
(* upserts do not clamp the confidence they are given.                        *)

\* (source id, target id, relation type, confidence) of an upsert: a chain
\* A -> B -> D, its shortcut A -> D with a confidence below 0 and with one
\* inside [0, 1], and a relation of another type.
AnyEdges ==
    {<<NodeA, NodeB, <<"calls">>, 50>>, <<NodeB, NodeD, <<"calls">>, 100>>,
     <<NodeA, NodeD, <<"calls">>, -10>>, <<NodeA, NodeD, <<"calls">>, 50>>,
     <<NodeB, NodeD, <<"uses">>, 50>>}

AnyAddRelation ==
    \E t \in AnyEdges :
        /\ Len(relations) < MaxInferRelations
        /\ queries = <<>>
        /\ AddRelation(t[1], t[2], t[3], None, t[4], "manual", clock, clock)
        /\ UNCHANGED calls

AnyInfer ==
    \E relation_type \in InferRelationTypes : \E now \in Tick(clock) :
        /\ InferTransitiveRelations(relation_type, now)
        /\ Len(queries') <= MaxInferQueries
        /\ UNCHANGED calls

NextInferAny == AnyAddRelation \/ AnyInfer

SpecInferAny == Init /\ [][NextInferAny]_vars

-----------------------------------------------------------------------------
(* Sessions of recommendation for entities of every kind of type: types with  *)
(* a candidate list, in the compatibility table or not, and a type without    *)
(* one; two names that differ in letter case only.                            *)

MaxRecommendEntities == 3 \* entities of a session of SpecRecommend

RecommendNames == {<<"a">>, <<"A">>}
RecommendTypes ==
    {<<"function">>, <<"class">>, <<"library">>, <<"error">>, <<"file">>, <<"c">>}

RecommendAddEntity ==
    \E name \in RecommendNames, entity_type \in RecommendTypes :
        /\ Len(entities) < MaxRecommendEntities
        /\ EntityId(name, entity_type) \notin Ids(entities)
        /\ queries = <<>>
        /\ AddEntity(name, entity_type, Some([p \in {"k1"} |-> 1]), 50, "manual",
                     clock, clock)
        /\ UNCHANGED calls

RecommendRecommend ==
    \E name \in RecommendNames, entity_type \in RecommendTypes :
        /\ calls = 0
        /\ calls' = 1
        /\ RecommendRelations(EntityId(name, entity_type), 5, clock)

NextRecommend == RecommendAddEntity \/ RecommendRecommend

SpecRecommend == Init /\ [][NextRecommend]_vars

-----------------------------------------------------------------------------
(* Properties of the upserts *)

\* Another key for which a call returned an id that a call for s's key returned.
SameIdOtherKey(s) ==
    \E s2 \in supplied : s2.kind = s.kind /\ s2.key # s.key /\ s2.ids \cap s.ids # {}

\* C1. For every (name, type) for which add_entity was called, the calls for
\* other pairs having returned other ids: all calls returned the same id, the
\* store holds exactly one entity under that id, with that name and type, its
\* confidence is the largest confidence supplied, and its properties are the
\* union of the supplied maps, a later call's value winning on a shared key.
C1_EntityUpsertMerges ==
    \A s \in supplied :
        (s.kind = "entity" /\ ~SameIdOtherKey(s)) =>
            /\ Cardinality(s.ids) = 1
            /\ \A id \in s.ids :
                /\ Cardinality({i \in DOMAIN entities : entities[i].id = id}) = 1
                /\ Lookup(entities, id).name = s.key[1]
                /\ Lookup(entities, id).type = s.key[2]
                /\ Lookup(entities, id).confidence = s.confidence
                /\ Lookup(entities, id).properties = s.properties

\* A call with confidence 50 and {k1: 2, k2: 2} has hit the entity that an
\* earlier call with confidence 90 and {k1: 1} created.
C1_Witness ==
    /\ ret.op = "add_entity" /\ ret.hit
    /\ \E s \in supplied :
        /\ s.kind = "entity" /\ ~SameIdOtherKey(s) /\ s.ids = {ret.result}
        /\ s.confidence = 90
        /\ s.properties = [k \in {"k1", "k2"} |-> 2]
    /\ Lookup(entities, ret.result).source = "code"

\* C2. For every (source id, relation type, target id) for which add_relation
\* was called, the calls for other triples having returned other ids: all
\* calls returned the same id, the store holds exactly one relation under that
\* id, with that source id, target id and relation type, its confidence is the
\* largest confidence supplied, and its properties are the later-wins union of
\* the supplied maps.
C2_RelationUpsertMerges ==
    \A s \in supplied :
        (s.kind = "relation" /\ ~SameIdOtherKey(s)) =>
            /\ Cardinality(s.ids) = 1
            /\ \A id \in s.ids :
                /\ Cardinality({i \in DOMAIN relations : relations[i].id = id}) = 1
                /\ Lookup(relations, id).source_id = s.key[1]
                /\ Lookup(relations, id).relation_type = s.key[2]
                /\ Lookup(relations, id).target_id = s.key[3]
                /\ Lookup(relations, id).confidence = s.confidence
                /\ Lookup(relations, id).properties = s.properties

\* Three calls for one triple: {k1: 2, k2: 2} at 50, then {k1: 1} at 90, then
\* no properties at 50.
C2_Witness ==
    /\ ret.op = "add_relation" /\ ret.hit /\ calls = 3
    /\ Len(relations) = 1
    /\ relations[1].confidence = 90
    /\ relations[1].properties = [k \in {"k1", "k2"} |-> IF k = "k1" THEN 1 ELSE 2]
    /\ relations[1].source = "code"
    /\ \E s \in supplied : s.kind = "relation" /\ s.ids = {ret.result}

\* All records of a map but the one under id are as they were.
OthersUnchanged(recs, recsAfter, id) ==
    /\ Len(recsAfter) = Len(recs)
    /\ \A i \in DOMAIN recs : recs[i].id # id => recsAfter[i] = recs[i]

\* C3. An upsert that hits a stored record leaves that record's id, creation
\* timestamp, source tag and identity fields as they were, sets its update
\* timestamp to the current time, and changes no other entity or relation.
C3_HitKeepsIdentity ==
    [][/\ (ret'.op = "add_entity" /\ ret'.hit) =>
            /\ ret'.result \in Ids(entities)
            /\ OthersUnchanged(entities, entities', ret'.result)
            /\ relations' = relations
            /\ LET old == Lookup(entities, ret'.result)
                   new == entities'[IndexOf(entities, ret'.result)] IN
               /\ new.id = old.id /\ new.name = old.name /\ new.type = old.type
               /\ new.created_at = old.created_at /\ new.source = old.source
               /\ new.updated_at = clock'
       /\ (ret'.op = "add_relation" /\ ret'.hit) =>
            /\ ret'.result \in Ids(relations)
            /\ OthersUnchanged(relations, relations', ret'.result)
            /\ entities' = entities
            /\ LET old == Lookup(relations, ret'.result)
                   new == relations'[IndexOf(relations, ret'.result)] IN
               /\ new.id = old.id /\ new.source_id = old.source_id
               /\ new.target_id = old.target_id
               /\ new.relation_type = old.relation_type
               /\ new.created_at = old.created_at /\ new.source = old.source
               /\ new.updated_at = clock'
      ]_vars

\* An entity upsert with another source tag has hit, later than its creation,
\* one of two stored entities, a relation being stored too.
C3_Witness ==
    /\ ret.op = "add_entity" /\ ret.hit
    /\ Len(entities) = 2
    /\ Lookup(entities, ret.result).updated_at > Lookup(entities, ret.result).created_at
    /\ Lookup(entities, ret.result).source = "manual"
    /\ Lookup(entities, ret.result).confidence = 90

-----------------------------------------------------------------------------
(* Properties of the persistence *)

\* Each of the four files holds what its collection holds.
Persisted ==
    /\ disk.entities = [exists |-> TRUE, doc |-> EntitiesDoc(entities)]
    /\ disk.relations = [exists |-> TRUE, doc |-> RelationsDoc(relations)]
    /\ disk.queries = [exists |-> TRUE, doc |-> QueriesDoc(queries)]
    /\ disk.insights = [exists |-> TRUE, doc |-> InsightsDoc(insights)]

\* C4. When add_entity or add_relation has returned, the four persisted
\* collections equal the four collections in memory, whatever calls came before.
C4_UpsertIsDurable ==
    ret.op \in {"add_entity", "add_relation"} => Persisted

\* An upsert has returned after two queries, which were not flushed.
C4_Witness ==
    /\ ret.op = "add_relation"
    /\ Len(queries) = 2
    /\ Len(relations) = 1

\* C5. After every call that changes one of the four collections (each query
\* and path search appends a Query record), the persisted collections equal
\* the collections in memory.
C5_EveryMutationFlushes ==
    ret.op # "init" => Persisted

-----------------------------------------------------------------------------
(* Properties of the queries *)

\* A filter given as an argument (not None) holds of a value.
Matches(filter, value) == filter.some => value = filter.val

\* result holds each record of recs that satisfies Wanted once and no other
\* record, by confidence descending, records of equal confidence in the order
\* of recs.
IsOrderedSelection(result, recs, Wanted(_)) ==
    /\ \A i \in DOMAIN recs :
          Cardinality({j \in DOMAIN result : result[j] = recs[i]})
              = IF Wanted(recs[i]) THEN 1 ELSE 0
    /\ \A j \in DOMAIN result : \E i \in DOMAIN recs : recs[i] = result[j]
    /\ \A j, k \in DOMAIN result :
          j < k =>
              \/ result[j].confidence > result[k].confidence
              \/ /\ result[j].confidence = result[k].confidence
                 /\ IndexOf(recs, result[j].id) < IndexOf(recs, result[k].id)

\* C6. query_entities returns exactly the entities whose type equals the type
\* argument when one is given (any string), whose name matches the pattern,
\* letter case ignored, when one is given, and whose confidence is at least
\* min_confidence, by confidence descending and, at equal confidence, in store
\* order; query_relations likewise for source id, target id, relation type and
\* the confidence floor.
C6_QueryReturnsMatches ==
    /\ ret.op = "query_entities" =>
          IsOrderedSelection(ret.result, entities,
              LAMBDA e : /\ Matches(ret.args[1], e.type)
                         /\ (ret.args[2].some => ReSearch(ret.args[2].val, e.name))
                         /\ e.confidence >= ret.args[3])
    /\ ret.op = "query_relations" =>
          IsOrderedSelection(ret.result, relations,
              LAMBDA r : /\ Matches(ret.args[1], r.source_id)
                         /\ Matches(ret.args[2], r.target_id)
                         /\ Matches(ret.args[3], r.relation_type)
                         /\ r.confidence >= ret.args[4])

QueryKind(op) ==
    CASE op = "query_entities" -> "entity"
      [] op = "query_relations" -> "relation"
      [] op = "find_path" -> "path"

\* The arguments of a call, as the parameters of the Query record name them.
CallParameters(op, args) ==
    CASE op = "query_entities" ->
            [entity_type |-> args[1], name_pattern |-> args[2],
             min_confidence |-> args[3]]
      [] op = "query_relations" ->
            [source_id |-> args[1], target_id |-> args[2],
             relation_type |-> args[3], min_confidence |-> args[4]]
      [] op = "find_path" ->
            [source_id |-> args[1], target_id |-> args[2], max_depth |-> args[3]]

\* C7. Each call of query_entities, query_relations or find_path appends one
\* Query record, of kind entity, relation or path and carrying the arguments
\* of the call, at the end of the query list, keeps the earlier Query records
\* in place, and changes no entity, relation or insight.
C7_QueryAppendsOneRecord ==
    [][ret'.op \in {"query_entities", "query_relations", "find_path"} =>
          /\ Len(queries') = Len(queries) + 1
          /\ SubSeq(queries', 1, Len(queries)) = queries
          /\ queries'[Len(queries')].query_type = QueryKind(ret'.op)
          /\ queries'[Len(queries')].parameters = CallParameters(ret'.op, ret'.args)
          /\ queries'[Len(queries')].timestamp = clock'
          /\ entities' = entities
          /\ relations' = relations
          /\ insights' = insights
      ]_vars

\* A path search has appended the third Query record of the session.
C7_Witness ==
    /\ ret.op = "find_path"
    /\ Len(queries) = 3
    /\ queries[3].query_type = "path"
    /\ queries[1].query_type = "entity"

-----------------------------------------------------------------------------
(* Properties of the path search *)

\* p is [e0, r1, e1, ..., rk, ek] with e0 = source_id, ek = target_id,
\* 1 <= k <= max_depth, and every (e(i-1), ri, ei) a stored relation.
IsPath(p, rels, source_id, target_id, max_depth) ==
    /\ Len(p) >= 3 /\ Len(p) % 2 = 1
    /\ (Len(p) - 1) \div 2 <= max_depth
    /\ p[1] = source_id
    /\ p[Len(p)] = target_id
    /\ \A i \in 1..((Len(p) - 1) \div 2) :
          \E j \in DOMAIN rels :
              /\ rels[j].source_id = p[2 * i - 1]
              /\ rels[j].relation_type = p[2 * i]
              /\ rels[j].target_id = p[2 * i + 1]

\* The (source id, relation type, target id) triples stored.
StoredTriples(rels) ==
    {<<rels[j].source_id, rels[j].relation_type, rels[j].target_id>> : j \in DOMAIN rels}

\* C8. Every path find_path(source, target, max_depth) returns is an
\* alternating sequence from source to target of 1..max_depth hops, each hop a
\* stored relation; on A -uses-> B -requires-> D alone, the search from A to D
\* returns the one path [A, uses, B, requires, D] for max_depth 2 and none for
\* max_depth 1.
C8_PathsAreBoundedWalks ==
    ret.op = "find_path" =>
        /\ \A n \in DOMAIN ret.result :
              IsPath(ret.result[n], relations, ret.args[1], ret.args[2], ret.args[3])
        /\ (/\ StoredTriples(relations) =
                  {<<NodeA, <<"uses">>, NodeB>>, <<NodeB, <<"requires">>, NodeD>>}
            /\ ret.args[1] = NodeA /\ ret.args[2] = NodeD) =>
              /\ ret.args[3] = 2 =>
                    ret.result = << <<NodeA, <<"uses">>, NodeB, <<"requires">>, NodeD>> >>
              /\ ret.args[3] = 1 => ret.result = <<>>

\* A search of max_depth 2 has returned two paths of two hops each.
C8_Witness ==
    /\ ret.op = "find_path"
    /\ ret.args[3] = 2
    /\ Len(ret.result) = 2
    /\ \A n \in DOMAIN ret.result : Len(ret.result[n]) = 5

-----------------------------------------------------------------------------
(* Properties of the transitive inference *)

\* The relations of rels of type relation_type from source_id to target_id.
Direct(rels, relation_type, source_id, target_id) ==
    {j \in DOMAIN rels : /\ rels[j].relation_type = relation_type
                         /\ rels[j].source_id = source_id
                         /\ rels[j].target_id = target_id}

\* The (A, C) with relations A -> B and B -> C of type relation_type in rels,
\* A # C, and no relation A -> C of that type in rels.
MissingShortcuts(rels, relation_type) ==
    {<<rels[i].source_id, rels[j].target_id>> : i, j \in
        {n \in DOMAIN rels : rels[n].relation_type = relation_type}}
    \cap {pr \in {<<rels[i].source_id, rels[j].target_id>> : i, j \in DOMAIN rels} :
            /\ pr[1] # pr[2]
            /\ Direct(rels, relation_type, pr[1], pr[2]) = {}
            /\ \E i, j \in DOMAIN rels :
                  /\ rels[i].relation_type = relation_type
                  /\ rels[j].relation_type = relation_type
                  /\ rels[i].source_id = pr[1]
                  /\ rels[i].target_id = rels[j].source_id
                  /\ rels[j].target_id = pr[2]}

\* The records of recsAfter stored under an id that recs does not hold.
Added(recs, recsAfter) ==
    {recsAfter[j] : j \in {n \in DOMAIN recsAfter : recsAfter[n].id \notin Ids(recs)}}

\* C9. One call infer_transitive_relations(T) on the relations S adds a
\* relation A -> C of type T for every pair of T-relations A -> B, B -> C of S
\* with A # C and no T-relation A -> C in S, and adds nothing else; each added
\* relation has confidence 0.6, the properties that mark it inferred
\* (transitive) and the source tag "reasoning".
C9_InferAddsMissingShortcuts ==
    [][ret'.op = "infer_transitive_relations" =>
          /\ {<<r.source_id, r.target_id>> : r \in Added(relations, relations')}
                = MissingShortcuts(relations, ret'.args[1])
          /\ Len(relations') = Len(relations)
                                 + Cardinality(MissingShortcuts(relations, ret'.args[1]))
          /\ \A r \in Added(relations, relations') :
                /\ r.relation_type = ret'.args[1]
                /\ r.confidence = 60
                /\ r.properties = [k \in {"inferred", "inference_type"} |->
                                      IF k = "inferred" THEN TRUE ELSE "transitive"]
                /\ r.source = "reasoning"
      ]_vars

\* C10. infer_transitive_relations returns the (source, target) pairs it
\* added: each returned pair had no relation of the type before the call and
\* has one after it, no pair is returned twice, and as many pairs are returned
\* as relation records were added.
C10_InferReturnsAddedPairs ==
    [][ret'.op = "infer_transitive_relations" =>
          /\ \A n \in DOMAIN ret'.result :
                /\ Direct(relations, ret'.args[1], ret'.result[n][1],
                          ret'.result[n][2]) = {}
                /\ Direct(relations', ret'.args[1], ret'.result[n][1],
                          ret'.result[n][2]) # {}
          /\ \A m, n \in DOMAIN ret'.result : m # n => ret'.result[m] # ret'.result[n]
          /\ Len(ret'.result) = Len(relations') - Len(relations)
      ]_vars

-----------------------------------------------------------------------------
(* Properties of the similarity search and of the recommendations *)

\* C11. The similarity score is symmetric and lies in [0, 1]: the score
\* computed for (X, Y) equals the score computed for (Y, X), whatever the
\* types, names and property keys of X and Y, empty names and empty property
\* maps included.
C11_SimilarityIsSymmetric ==
    ret.op = "_calculate_similarity" =>
        /\ ret.result = CalculateSimilarity(ret.args[2], ret.args[1])
        /\ ret.result \in 0..100

\* Two different entities, one with two words and two keys, the other with one
\* of the words and one of the keys: a score strictly between 0 and 1.
C11_Witness ==
    /\ ret.op = "_calculate_similarity"
    /\ ret.args[1].name = <<"a", " ", "b">>
    /\ ret.args[2].name = <<"A">>
    /\ DOMAIN ret.args[1].properties = {"k1", "k2"}
    /\ DOMAIN ret.args[2].properties = {"k1"}
    /\ ret.args[1].type = ret.args[2].type
    /\ ret.result = 65

\* The ids of the entities of ents other than entity_id whose similarity to
\* it is at least threshold.
SimilarIds(ents, entity_id, threshold) ==
    {ents[i].id : i \in {n \in DOMAIN ents :
        /\ ents[n].id # entity_id
        /\ CalculateSimilarity(Lookup(ents, entity_id), ents[n]) >= threshold}}

\* C12. For a stored entity id and a threshold t, find_similar_entities
\* returns exactly the ids of the other entities whose similarity to it is
\* >= t, ordered by score descending; after the call a similar_to relation
\* from the entity to each returned id exists, each relation the call creates
\* has the pair's score as confidence, and a similar_to relation that existed
\* before the call is left unmodified.
C12_FindSimilarReturnsAndLinks ==
    [][(ret'.op = "find_similar_entities" /\ ret'.args[1] \in Ids(entities)) =>
          LET entity_id == ret'.args[1]
              Score(id) == CalculateSimilarity(Lookup(entities, entity_id),
                                               Lookup(entities, id)) IN
          /\ {ret'.result[i] : i \in DOMAIN ret'.result}
                = SimilarIds(entities, entity_id, ret'.args[2])
          /\ \A i, j \in DOMAIN ret'.result :
                i < j => /\ ret'.result[i] # ret'.result[j]
                         /\ Score(ret'.result[i]) >= Score(ret'.result[j])
          /\ \A i \in DOMAIN ret'.result :
                Direct(relations', SimilarTo, entity_id, ret'.result[i]) # {}
          /\ \A r \in Added(relations, relations') :
                /\ r.source_id = entity_id
                /\ r.relation_type = SimilarTo
                /\ r.target_id \in SimilarIds(entities, entity_id, ret'.args[2])
                /\ r.confidence = Score(r.target_id)
          /\ \A j \in DOMAIN relations :
                relations[j].relation_type = SimilarTo
                    => j \in DOMAIN relations' /\ relations'[j] = relations[j]
      ]_vars

\* C13. For a stored entity id and max_recommendations >= 0,
\* recommend_relations returns at most max_recommendations recommendations
\* sorted by confidence descending, each with a confidence in (0.5, 1.0], a
\* target entity other than the entity itself and a relation type from the
\* candidate list of the entity's type for which no relation (entity, type,
\* target) is stored; the call adds or changes no entity and no relation.
C13_RecommendationsAreNew ==
    [][(ret'.op = "recommend_relations" /\ ret'.args[1] \in Ids(entities)
        /\ ret'.args[2] >= 0) =>
          LET entity_id == ret'.args[1]
              suggested == SuggestedRelations(Lookup(entities, entity_id).type) IN
          /\ Len(ret'.result) <= ret'.args[2]
          /\ \A i, j \in DOMAIN ret'.result :
                i < j => ret'.result[i].confidence >= ret'.result[j].confidence
          /\ \A i \in DOMAIN ret'.result :
                LET rec == ret'.result[i] IN
                /\ rec.confidence > 50
                /\ rec.confidence <= 100
                /\ rec.source_id = entity_id
                /\ rec.target_id \in Ids(entities) \ {entity_id}
                /\ \E k \in DOMAIN suggested : suggested[k] = rec.relation_type
                /\ Direct(relations, rec.relation_type, entity_id, rec.target_id) = {}
          /\ entities' = entities
          /\ relations' = relations
      ]_vars

-----------------------------------------------------------------------------
(* Properties of the analysis, the retention and the export *)

\* How often x occurs in xs.
Occurrences(xs, x) == Cardinality({n \in DOMAIN xs : xs[n] = x})

\* The number of relation endpoints of rels at id, a self-loop counting twice.
Degree(rels, id) ==
    Cardinality({j \in DOMAIN rels : rels[j].source_id = id})
    + Cardinality({j \in DOMAIN rels : rels[j].target_id = id})

\* C14. An analysis run on a store with at least one entity and at least one
\* relation appends to the insights, and returns, exactly three records: one for
\* the most frequent entity type with confidence 0.9, one for the most frequent
\* relation type with confidence 0.9 and one for the highest-degree node with
\* confidence 0.8; it changes no entity and no relation.
C14_AnalysisEmitsThreeInsights ==
    [][(ret'.op = "analyze_patterns" /\ entities # <<>> /\ relations # <<>>) =>
          LET types == [i \in DOMAIN entities |-> entities[i].type]
              relation_types == [i \in DOMAIN relations |-> relations[i].relation_type] IN
          /\ Len(ret'.result) = 3
          /\ insights' = insights \o ret'.result
          /\ ret'.result[1].confidence = 90
          /\ \A i \in DOMAIN types :
                Occurrences(types, types[i])
                    <= Occurrences(types, ret'.result[1].description[1])
          /\ ret'.result[2].confidence = 90
          /\ \A i \in DOMAIN relation_types :
                Occurrences(relation_types, relation_types[i])
                    <= Occurrences(relation_types, ret'.result[2].description[1])
          /\ ret'.result[3].confidence = 80
          /\ \E e \in {entities[i] : i \in DOMAIN entities} :
                /\ e.name = ret'.result[3].description[1]
                /\ \A j \in DOMAIN relations :
                      /\ Degree(relations, relations[j].source_id) <= Degree(relations, e.id)
                      /\ Degree(relations, relations[j].target_id) <= Degree(relations, e.id)
          /\ entities' = entities
          /\ relations' = relations
      ]_vars

\* The retention period of a cleanup_old_data call under the default
\* configuration, in clock ticks.
Retention(days) == (IF days.some THEN days.val ELSE 365) * TicksPerDay

\* C15. cleanup_old_data(days) removes from the queries and the insights
\* exactly the records stamped strictly earlier than now minus days, keeps
\* every other record in its original order, reports cleaned and remaining
\* counts that sum to the sizes before the call, and leaves every entity and
\* every relation unchanged.
C15_CleanupRemovesStrictlyOlder ==
    [][ret'.op = "cleanup_old_data" =>
          LET cutoff == clock' - Retention(ret'.args[1]) IN
          /\ queries' = SelectSeq(queries, LAMBDA q : ~(q.timestamp < cutoff))
          /\ insights' = SelectSeq(insights, LAMBDA i : ~(i.created_at < cutoff))
          /\ ret'.result.cleaned_queries + ret'.result.remaining_queries = Len(queries)
          /\ ret'.result.cleaned_insights + ret'.result.remaining_insights = Len(insights)
          /\ ret'.result.remaining_queries = Len(queries')
          /\ ret'.result.remaining_insights = Len(insights')
          /\ entities' = entities
          /\ relations' = relations
      ]_vars

\* A cleanup with a one-day retention has removed a query and an insight and
\* kept a query, on a store that holds an entity.
C15_Witness ==
    /\ ret.op = "cleanup_old_data"
    /\ ret.args[1] = Some(1)
    /\ ret.result.cleaned_queries >= 1
    /\ ret.result.cleaned_insights >= 1
    /\ ret.result.remaining_queries >= 1
    /\ queries # <<>>
    /\ entities # <<>>

\* C16 as stated. cleanup_old_data(days=0) leaves the queries and the insights
\* empty whatever they held before the call, records created immediately
\* before it included, and cleanup_old_data(days=100000) removes no record;
\* neither call changes the entities or the relations.
C16_ZeroDaysEmpties ==
    [][(ret'.op = "cleanup_old_data" /\ ret'.args[1] \in {Some(0), Some(100000)}) =>
          /\ ret'.args[1] = Some(0) => queries' = <<>> /\ insights' = <<>>
          /\ ret'.args[1] = Some(100000) => queries' = queries /\ insights' = insights
          /\ entities' = entities
          /\ relations' = relations
      ]_vars

\* C16, amended. cleanup_old_data(days=0) removes every query and insight
\* stamped strictly earlier than the clock reading of the call and keeps, in
\* order, the records stamped with that reading or later, so that the two
\* collections end up empty only if the clock has advanced since the last
\* record was created; cleanup_old_data(days=100000) removes no record;
\* neither call changes the entities or the relations.
C16_ZeroDaysKeepsSameInstant ==
    [][(ret'.op = "cleanup_old_data" /\ ret'.args[1] \in {Some(0), Some(100000)}) =>
          /\ ret'.args[1] = Some(0) =>
                /\ queries' = SelectSeq(queries, LAMBDA q : q.timestamp >= clock')
                /\ insights' = SelectSeq(insights, LAMBDA i : i.created_at >= clock')
                /\ (\A n \in DOMAIN queries : queries[n].timestamp < clock')
                      => queries' = <<>>
                /\ (\A n \in DOMAIN insights : insights[n].created_at < clock')
                      => insights' = <<>>
          /\ ret'.args[1] = Some(100000) => queries' = queries /\ insights' = insights
          /\ entities' = entities
          /\ relations' = relations
      ]_vars

\* A cleanup with days=0 has removed a query and kept another one, the one
\* created at the clock reading of the cleanup.
C16_Witness ==
    /\ ret.op = "cleanup_old_data"
    /\ ret.args[1] = Some(0)
    /\ ret.result.cleaned_queries >= 1
    /\ ret.result.remaining_queries >= 1
    /\ \A n \in DOMAIN queries : queries[n].timestamp = clock

-----------------------------------------------------------------------------
(* Properties of the store as a whole *)

\* C17. Across every sequence of operations (upserts, queries, path search,
\* transitive inference, similarity search, recommendation, analysis,
\* statistics, export, cleanup) the set of entity ids and the set of relation
\* ids never shrink: a record once stored is present in every later state.
C17_IdsNeverShrink ==
    [][/\ Ids(entities) \subseteq Ids(entities')
       /\ Ids(relations) \subseteq Ids(relations')]_vars

\* A cleanup has removed a query or an insight from a store that still holds
\* the entity upserted before it.
C17_Witness ==
    /\ ret.op = "cleanup_old_data"
    /\ ret.result.cleaned_insights + ret.result.cleaned_queries >= 1
    /\ entities # <<>>

\* C18. If every upsert call supplies a confidence in [0, 1], then after any
\* sequence of operations, transitive inference and similarity search
\* included, every stored entity and relation has a confidence in [0, 1], and
\* the confidence of a stored record never decreases from one state to the
\* next.
C18_ConfidenceInRangeAndMonotone ==
    /\ [](/\ \A i \in DOMAIN entities : entities[i].confidence \in 0..100
          /\ \A j \in DOMAIN relations : relations[j].confidence \in 0..100)
    /\ [][/\ \A i \in DOMAIN entities : \A k \in DOMAIN entities' :
                entities'[k].id = entities[i].id
                    => entities'[k].confidence >= entities[i].confidence
          /\ \A j \in DOMAIN relations : \A k \in DOMAIN relations' :
                relations'[k].id = relations[j].id
                    => relations'[k].confidence >= relations[j].confidence]_vars

\* A similarity search has created a relation, and an entity upserted first
\* with 0.9 and then with 0.5 is stored.
C18_Witness ==
    /\ ret.op = "find_similar_entities"
    /\ \E j \in DOMAIN relations :
          relations[j].source = "reasoning" /\ relations[j].relation_type = SimilarTo
    /\ \E i \in DOMAIN entities : entities[i].confidence = 90
    /\ \E i \in DOMAIN entities : entities[i].confidence = 50

\* C19. export_graph with a format other than json and graphml fails with an
\* error naming the format, produces no export file, and leaves all four
\* collections, in memory and persisted, unchanged.
C19_UnsupportedExportFails ==
    [][(ret'.op = "export_graph"
        /\ ret'.args[1] # <<"json">> /\ ret'.args[1] # <<"graphml">>) =>
          /\ ret'.result.raised = "ValueError"
          /\ ret'.result.message[Len(ret'.result.message)] = ret'.args[1]
          /\ outputs' = outputs
          /\ entities' = entities
          /\ relations' = relations
          /\ queries' = queries
          /\ insights' = insights
          /\ disk' = disk
      ]_vars

\* An export as xml has failed on a store that holds an entity and from which
\* an export file was written before.
C19_Witness ==
    /\ ret.op = "export_graph"
    /\ ret.args = << <<"xml">> >>
    /\ outputs # {}
    /\ entities # <<>>

\* The configuration file of a construction is absent, unparsable or unreadable.
MissingOrUnusable(file) == ~file.exists \/ file.doc.kind \in {"text", "denied"}

\* C20. Constructing the manager succeeds and uses the default configuration
\* (retention 365 days, default data directory) both when the configuration
\* file is missing and when it exists but cannot be read or parsed; in neither
\* case is an error surfaced to the caller.
C20_ConstructionFallsBackToDefaults ==
    [][(ret'.op = "__init__" /\ MissingOrUnusable(ret'.args[1])) =>
          /\ "raised" \notin DOMAIN ret'.result
          /\ config' = DefaultConfig
          /\ Get(config', "retention_days", 365) = 365
          /\ Get(config', "data_directory", <<"data/knowledge">>) = <<"data/knowledge">>
      ]_vars

-----------------------------------------------------------------------------
(* Properties of absent data, reload and paths *)

\* The ids that occur as source or target of a relation of rels.
Endpoints(rels) ==
    {rels[j].source_id : j \in DOMAIN rels} \cup {rels[j].target_id : j \in DOMAIN rels}

\* The arguments of the call that led to ret' match nothing in the store the
\* call found.
MatchesNothing ==
    CASE ret'.op = "query_entities" ->
            ~\E i \in DOMAIN entities :
                /\ Matches(ret'.args[1], entities[i].type)
                /\ (ret'.args[2].some => ReSearch(ret'.args[2].val, entities[i].name))
                /\ entities[i].confidence >= ret'.args[3]
      [] ret'.op = "query_relations" ->
            ~\E j \in DOMAIN relations :
                /\ Matches(ret'.args[1], relations[j].source_id)
                /\ Matches(ret'.args[2], relations[j].target_id)
                /\ Matches(ret'.args[3], relations[j].relation_type)
                /\ relations[j].confidence >= ret'.args[4]
      [] ret'.op = "find_path" ->
            \/ ret'.args[1] \notin Endpoints(relations)
            \/ ret'.args[2] \notin Endpoints(relations)
      [] ret'.op \in {"find_similar_entities", "recommend_relations"} ->
            ret'.args[1] \notin Ids(entities)
      [] ret'.op = "analyze_patterns" -> entities = <<>> /\ relations = <<>>
      [] OTHER -> FALSE

\* C21. On any store, an empty one and one whose relations form a cycle
\* included, query_entities, query_relations, find_path,
\* find_similar_entities and recommend_relations called with ids or filters
\* that match nothing, and the analysis of a store without data, return an
\* empty collection and no error.
C21_AbsenceGivesEmpty ==
    [][MatchesNothing => ret'.result = <<>>]_vars

RECURSIVE Walks(_, _, _)
Walks(rels, source_id, k) ==
    IF k = 0 THEN {<<source_id>>}
    ELSE UNION {{w \o <<rels[j].relation_type, rels[j].target_id>> :
                    j \in {n \in DOMAIN rels : rels[n].source_id = w[Len(w)]}} :
                w \in Walks(rels, source_id, k - 1)}

\* The i-th entity id of the walk p.
NodeAt(p, i) == p[2 * i - 1]

\* No entity id occurs twice in the walk p, except that its first and last may
\* coincide, and target_id occurs only as its last id (and as its first when
\* the walk starts at target_id).
Qualifies(p, target_id) ==
    LET n == (Len(p) + 1) \div 2 IN
    /\ NodeAt(p, n) = target_id
    /\ \A i \in 2..(n - 1) : NodeAt(p, i) # target_id
    /\ \A i, j \in 1..n :
          (i < j /\ NodeAt(p, i) = NodeAt(p, j)) => (i = 1 /\ j = n)

\* The qualifying paths of 1..max_depth hops from source_id to target_id.
QualifyingPaths(rels, source_id, target_id, max_depth) ==
    UNION {{p \in Walks(rels, source_id, k) : Qualifies(p, target_id)} :
              k \in 1..max_depth}

\* C23. find_path(source, target, max_depth) returns every qualifying path
\* exactly once and only qualifying paths: the paths of 1..max_depth hops from
\* source to target in which no entity id occurs twice, except that source and
\* target may coincide, and in which the target occurs only as the last id
\* (and as the first when source = target); a node reached on one branch is
\* reached again on another.
C23_PathsAreTheQualifyingPaths ==
    ret.op = "find_path" =>
        /\ {ret.result[n] : n \in DOMAIN ret.result}
              = QualifyingPaths(relations, ret.args[1], ret.args[2], ret.args[3])
        /\ \A m, n \in DOMAIN ret.result : ret.result[m] = ret.result[n] => m = n

\* A search has returned two paths of two hops through the same intermediate
\* id, reached over two different relations.
C23_Witness ==
    /\ ret.op = "find_path"
    /\ Len(ret.result) = 2
    /\ Len(ret.result[1]) = 5 /\ Len(ret.result[2]) = 5
    /\ ret.result[1][3] = ret.result[2][3]
    /\ ret.result[1][2] # ret.result[2][2]

-----------------------------------------------------------------------------
(* Properties of repeated inference, partial flushes and statistics *)

\* The least c with 2^c >= n.
RECURSIVE CeilLog2(_)
CeilLog2(n) == IF n <= 1 THEN 0 ELSE 1 + CeilLog2((n + 1) \div 2)

\* The number N of relations of the chain the caller upserted.
ChainLength(rels) == Cardinality({j \in DOMAIN rels : rels[j].source = "manual"})

\* Every ordered pair (Xi, Xj), i < j, of the chain has a direct relation.
ChainClosed(rels) ==
    \A i, j \in 0..ChainLength(rels) :
        i < j => Direct(rels, ChainType, ChainNode(i), ChainNode(j)) # {}

\* C24. On a chain of N relations of one type over N + 1 ids, with
\* infer_transitive_relations called repeatedly: the calls that add a
\* relation are at least ceil(log2 N) and at most N - 1 (the first
\* ceil(log2 N) calls add one, and no call after the (N - 1)-th does); a call
\* that adds nothing leaves the relations as they are, with a direct relation
\* for every ordered pair (Xi, Xj), i < j; and once every pair has one, every
\* further call adds nothing.
C24_ChainClosesInLogToLinearCalls ==
    [][ret'.op = "infer_transitive_relations" /\ calls' = calls + 1 =>
          /\ ret'.result # <<>> => calls' <= ChainLength(relations) - 1
          /\ calls' <= CeilLog2(ChainLength(relations)) => ret'.result # <<>>
          /\ ret'.result = <<>> => (relations' = relations /\ ChainClosed(relations'))
          /\ ChainClosed(relations) => ret'.result = <<>>
          /\ ret'.result # <<>> => Len(relations') > Len(relations)
      ]_vars

\* The second call on a chain of four relations has added the last relations
\* of the closure: the first call was a single generation.
C24_Witness ==
    /\ ret.op = "infer_transitive_relations"
    /\ calls = 2
    /\ ChainLength(relations) = 4
    /\ ret.result # <<>>
    /\ ChainClosed(relations)

\* C25. A flush writes the four collections in the order entities, relations,
\* queries, insights: when the process stops after k of the four writes
\* (0 <= k <= 4), the first k persisted collections hold the state in memory
\* and the others hold what the previous flush left.
C25_StoppedFlushIsPartial ==
    [][ret'.op = "stopped" =>
          LET k == ret'.args[1]
              current == SaveData(entities', relations', queries', insights') IN
          /\ disk'.entities = IF k >= 1 THEN current.entities ELSE disk.entities
          /\ disk'.relations = IF k >= 2 THEN current.relations ELSE disk.relations
          /\ disk'.queries = IF k >= 3 THEN current.queries ELSE disk.queries
          /\ disk'.insights = IF k >= 4 THEN current.insights ELSE disk.insights
      ]_vars

\* A persisted state whose collections are mutually inconsistent: the process
\* stopped after two writes, the persisted entities are the two in memory,
\* and the persisted queries and insights are older than those in memory.
C25_Witness ==
    /\ ret.op = "stopped"
    /\ ret.args = <<2>>
    /\ disk.entities = File(EntitiesDoc(entities))
    /\ Len(entities) = 2
    /\ disk.queries # File(QueriesDoc(queries))
    /\ disk.insights # File(InsightsDoc(insights))

\* The sum of the degrees in rels of the ids of the finite set S.
RECURSIVE DegreeSum(_, _)
DegreeSum(rels, S) ==
    IF S = {} THEN 0
    ELSE LET x == CHOOSE y \in S : TRUE IN Degree(rels, x) + DegreeSum(rels, S \ {x})

\* C26. get_statistics changes no collection and reports: the entity and
\* relation totals, equal to the store sizes; connected_nodes, the number of
\* distinct ids that are source or target of a stored relation, stored
\* entities or not; max_degree, the largest number of relation endpoints at
\* one id, a self-loop counting twice; and the degrees of all ids sum to twice
\* the number of relations.
C26_StatisticsCountEndpoints ==
    [][ret'.op = "get_statistics" =>
          LET ids == Endpoints(relations)
              Deg(id) == Degree(relations, id) IN
          /\ entities' = entities
          /\ relations' = relations
          /\ queries' = queries
          /\ insights' = insights
          /\ disk' = disk
          /\ ret'.result.entities.total = Len(entities)
          /\ ret'.result.relations.total = Len(relations)
          /\ ret'.result.connectivity.connected_nodes = Cardinality(ids)
          /\ \A id \in ids : Deg(id) <= ret'.result.connectivity.max_degree
          /\ ids # {} => \E id \in ids : Deg(id) = ret'.result.connectivity.max_degree
          /\ ids = {} => ret'.result.connectivity.max_degree = 0
          /\ DegreeSum(relations, ids) = 2 * Len(relations)
          /\ ret'.result.connectivity.avg_degree
                = Average(2 * Len(relations), Cardinality(ids), 100)
      ]_vars

\* Statistics of a store with a self-loop at a stored entity that has a second
\* relation, and with an endpoint that is not a stored entity.
C26_Witness ==
    /\ ret.op = "get_statistics"
    /\ ret.result.connectivity.max_degree = 3
    /\ \E j \in DOMAIN relations :
          relations[j].source_id = relations[j].target_id
    /\ EntityA \in Ids(entities)
    /\ NodeC \in Endpoints(relations)
    /\ ret.result.connectivity.connected_nodes = 3

-----------------------------------------------------------------------------
(* Properties of keys, of two managers and of the reasoner *)

\* C27. Upserts with different keys never merge into one record: for every
\* (name, type) add_entity was called with, the store holds an entity with
\* that name and type, one entity per pair, also when a name or a type
\* contains the underscore of the id derivation; likewise for every
\* (source id, relation type, target id) add_relation was called with.
C27_DifferentKeysDifferentRecords ==
    /\ \A s \in supplied :
          s.kind = "entity" =>
              \E i \in DOMAIN entities :
                  entities[i].name = s.key[1] /\ entities[i].type = s.key[2]
    /\ Cardinality({s \in supplied : s.kind = "entity"}) = Len(entities)
    /\ \A s \in supplied :
          s.kind = "relation" =>
              \E j \in DOMAIN relations :
                  /\ relations[j].source_id = s.key[1]
                  /\ relations[j].relation_type = s.key[2]
                  /\ relations[j].target_id = s.key[3]
    /\ Cardinality({s \in supplied : s.kind = "relation"}) = Len(relations)

\* C28. With two managers open on one data directory and their calls
\* interleaved, once a call has flushed, every entity and relation upserted
\* through either manager is in the persisted collections: no upsert is lost.
C28_NoUpsertIsLost ==
    ret.op # "init" =>
        \A s \in supplied :
            \E id \in s.ids :
                \/ s.kind = "entity" /\ id \in Ids(LoadData(disk).entities)
                \/ s.kind = "relation" /\ id \in Ids(LoadData(disk).relations)

\* C29. infer_transitive_relations(T) changes no relation that existed before
\* the call, whatever the stored confidences and the string T: every such
\* relation keeps its confidence, properties, timestamps and source tag, no
\* entity changes, and the only effects are new relation records of type T
\* and appended Query records.
C29_InferKeepsExistingRelations ==
    [][ret'.op = "infer_transitive_relations" =>
          /\ \A j \in DOMAIN relations :
                j \in DOMAIN relations' /\ relations'[j] = relations[j]
          /\ \A j \in DOMAIN relations' :
                j > Len(relations) => relations'[j].relation_type = ret'.args[1]
          /\ entities' = entities
          /\ insights' = insights
          /\ Len(queries') >= Len(queries)
          /\ SubSeq(queries', 1, Len(queries)) = queries
      ]_vars

\* The (source type, target type, relation type) combinations listed in the
\* type-compatibility table.
CompatibleKeys ==
    {<< <<"function">>, <<"library">>, <<"uses">> >>,
     << <<"class">>, <<"class">>, <<"extends">> >>,
     << <<"function">>, <<"function">>, <<"calls">> >>,
     << <<"error">>, <<"file">>, <<"occurs_in">> >>,
     << <<"file">>, <<"library">>, <<"imports">> >>}

\* The candidate relation types of an entity type.
CandidateTypes(entity_type) ==
    {SuggestedRelations(entity_type)[n] : n \in DOMAIN SuggestedRelations(entity_type)}

\* C30. Every recommendation recommend_relations returns has a (source
\* entity type, target entity type, relation type) combination listed in the
\* type-compatibility table, a combination with the default base 0.3 never
\* exceeding the 0.5 cut-off; an entity whose type has no candidate list, or
\* only candidates the table lists for no target type, gets an empty result.
C30_RecommendationsAreInTheTable ==
    (ret.op = "recommend_relations" /\ ret.args[1] \in Ids(entities)) =>
        LET source_type == Lookup(entities, ret.args[1]).type IN
        /\ \A n \in DOMAIN ret.result :
              <<source_type, Lookup(entities, ret.result[n].target_id).type,
                ret.result[n].relation_type>> \in CompatibleKeys
        /\ (~\E key \in CompatibleKeys :
                key[1] = source_type /\ key[3] \in CandidateTypes(source_type))
              => ret.result = <<>>

\* Recommendations for a library with a second library of the same name in
\* another letter case, at similarity 1.0: nothing is returned.
C30_Witness ==
    /\ ret.op = "recommend_relations"
    /\ ret.args[1] = EntityId(<<"a">>, <<"library">>)
    /\ EntityId(<<"a">>, <<"library">>) \in Ids(entities)
    /\ EntityId(<<"A">>, <<"library">>) \in Ids(entities)
    /\ CalculateSimilarity(Lookup(entities, EntityId(<<"a">>, <<"library">>)),
                           Lookup(entities, EntityId(<<"A">>, <<"library">>))) = 100
    /\ ret.result = <<>>

====
